---- MODULE Spec2Model ----
(***************************************************************************)
(* Verification model of the Kafka K8s charm's reconciliation core:        *)
(*   - src/src/core/cluster.py   ClusterState (readiness, derived values)  *)
(*   - src/src/charm.py          KafkaCharm event handlers                 *)
(*   - src/src/managers/k8s.py   K8sManager (NodePort services)            *)
(***************************************************************************)
EXTENDS Integers, Sequences, FiniteSets, TLC

VARIABLES
    \* ---- relation data read by ClusterState (core/cluster.py) ----
    peer_relation,              \* ClusterState.peer_relation is not None
    zookeeper_relation,         \* ClusterState.zookeeper.relation is not None
    zookeeper_connected,        \* ClusterState.zookeeper.zookeeper_connected
    tls_enabled,                \* ClusterState.cluster.tls_enabled
    zookeeper_tls,              \* ClusterState.zookeeper.tls
    certificate,                \* ClusterState.unit_broker.certificate is non-empty
    ca,                         \* ClusterState.unit_broker.ca is non-empty
    internal_user_credentials,  \* ClusterState.cluster.internal_user_credentials non-empty
    peer_units,                 \* ClusterState.peer_relation.units: the other units' ordinals
    peer_units_cache,           \* cached peer_units_data_interfaces: <<>> or <<units>>
    expose_nodeport,            \* ClusterState.config.expose_nodeport
    \* ---- unit / workload state seen by KafkaCharm (charm.py) ----
    upgrade_idle,               \* self.upgrade.idle
    workload_active,            \* self.workload.active()
    server_properties,          \* server.properties on the workload: none | stale | current
    zk_jaas,                    \* JAAS config on the workload: none | stale | current
    unit_status,                \* self.unit.status (the Status key last set)
    pass,                       \* what the handler pass just run did, in order
    \* ---- K8sManager (managers/k8s.py) and the cluster API it talks to ----
    unit_id,                    \* K8sManager.broker.unit_id
    mgr_protocol,               \* K8sManager._security_protocol
    mgr_pod,                    \* cached K8sManager.pod: <<>> or <<uid of the pod read>>
    mgr_service,                \* cached K8sManager.service: <<>>, <<None>> or <<Service>>
    k8s_call,                   \* the last K8sManager call: what, and whether it raised
    advertised,                 \* the last value node_port returned, with its mechanism
    pod_uid,                    \* cluster: uid of the unit's pod, 0 when there is none
    pods_created,               \* cluster: pods the unit has had so far
    services,                   \* cluster: the Services, keyed by name
    \* ---- TLSManager (managers/tls.py) and the workload's files ----
    private_key,                \* relation data: the unit has a private key
    conf_files,                 \* the TLS files in the configuration directory
    aliases,                    \* the aliases in truststore.jks
    perms,                      \* of each store: owner and mode as the broker needs
    ca_versions,                \* which CA: relation data, ca.pem, alias ca of the truststore
    tls_pass,                   \* what the TLS call just run did, in order
    substrate,                  \* "vm" or "k8s"
    sans_input,                 \* what build_sans reads: addresses, names, config
    sans,                       \* what build_sans returned, once called
    \* ---- the client relations read by ClusterState ----
    client_relations,           \* by relation id: remote app, requested roles, password
    super_users_read,           \* the last value read of ClusterState.super_users
    unit_is_leader,             \* unit.is_leader()
    client_data_written         \* the relations the pass just run wrote client data to

cluster_vars == <<peer_relation, zookeeper_relation, zookeeper_connected, tls_enabled,
                  zookeeper_tls, certificate, ca, internal_user_credentials>>
charm_vars == <<upgrade_idle, workload_active, server_properties, zk_jaas, unit_status,
                pass>>
view_vars == <<peer_units, peer_units_cache, expose_nodeport>>
k8s_vars == <<unit_id, mgr_protocol, mgr_pod, mgr_service, k8s_call, advertised, pod_uid,
              pods_created, services>>
tls_vars == <<private_key, conf_files, aliases, perms, ca_versions, tls_pass>>
sans_vars == <<substrate, sans_input, sans>>
client_vars == <<client_relations, super_users_read, unit_is_leader,
                 client_data_written>>
vars == <<cluster_vars, view_vars, charm_vars, k8s_vars, tls_vars, sans_vars, client_vars>>

(***************************************************************************)
(* core/cluster.py                                                         *)
(***************************************************************************)

ReadyStatuses ==
    {"NO_PEER_RELATION", "ZK_NOT_RELATED", "ZK_NO_DATA", "ZK_TLS_MISMATCH",
     "NO_CERT", "NO_BROKER_CREDS", "ACTIVE"}

\* a ^ b on Python bools
Xor(a, b) == (a /\ ~b) \/ (~a /\ b)

\* ready_to_start with the certificate check moved before the TLS mismatch check
StartStatusCertFirst(peer, zkrel, zkconn, tls, zktls, cert, creds) ==
    IF ~peer THEN "NO_PEER_RELATION"
    ELSE IF ~zkrel THEN "ZK_NOT_RELATED"
    ELSE IF ~zkconn THEN "ZK_NO_DATA"
    ELSE IF tls /\ ~cert THEN "NO_CERT"
    ELSE IF Xor(tls, zktls) THEN "ZK_TLS_MISMATCH"
    ELSE IF ~creds THEN "NO_BROKER_CREDS"
    ELSE "ACTIVE"

\* ready_to_start with the TLS mismatch check only looking for ZooKeeper TLS without
\* cluster TLS
StartStatusOneSided(peer, zkrel, zkconn, tls, zktls, cert, creds) ==
    IF ~peer THEN "NO_PEER_RELATION"
    ELSE IF ~zkrel THEN "ZK_NOT_RELATED"
    ELSE IF ~zkconn THEN "ZK_NO_DATA"
    ELSE IF zktls /\ ~tls THEN "ZK_TLS_MISMATCH"
    ELSE IF tls /\ ~cert THEN "NO_CERT"
    ELSE IF ~creds THEN "NO_BROKER_CREDS"
    ELSE "ACTIVE"

\* ClusterState.ready_to_start as a function of the values it reads
StartStatus(peer, zkrel, zkconn, tls, zktls, cert, creds) ==
    IF ~peer THEN "NO_PEER_RELATION"
    ELSE IF ~zkrel THEN "ZK_NOT_RELATED"
    ELSE IF ~zkconn THEN "ZK_NO_DATA"
    ELSE IF Xor(tls, zktls) THEN "ZK_TLS_MISMATCH"
    ELSE IF tls /\ ~cert THEN "NO_CERT"
    ELSE IF ~creds THEN "NO_BROKER_CREDS"
    ELSE "ACTIVE"

\* ClusterState.ready_to_start on the current relation data
ready_to_start ==
    StartStatus(peer_relation, zookeeper_relation, zookeeper_connected, tls_enabled,
                zookeeper_tls, certificate, internal_user_credentials)

\* security_protocol that does not wait for the certificate
security_protocol_TlsFlagOnly ==
    IF tls_enabled THEN "SASL_SSL" ELSE "SASL_PLAINTEXT"

\* ClusterState.security_protocol
security_protocol ==
    IF tls_enabled /\ certificate THEN "SASL_SSL" ELSE "SASL_PLAINTEXT"

AuthMechanisms == {"SASL_PLAINTEXT", "SASL_SSL"}

\* the ordinal of the unit this charm process runs on
LocalUnit == 0

\* the other units a model run can have in the peer relation
MaxPeers == 2
PeerOrdinals == 1..MaxPeers

\* SECURITY_PROTOCOL_PORTS[mechanism]: one entry per mechanism, all distinct
SecurityProtocolPorts(mechanism) == <<"port-of", mechanism>>

\* KafkaBroker.internal_address / bootstrap_server_external of the broker with ordinal u
InternalAddress(u) == <<"internal", u>>
BootstrapServerExternal(u) == <<"external", u>>

\* ClusterState.peer_units_data_interfaces as computed now (its keys)
PeerUnitsNow == IF ~peer_relation \/ peer_units = {} THEN {} ELSE peer_units

\* ClusterState.peer_units_data_interfaces: a cached_property of the ClusterState object
peer_units_data_interfaces ==
    IF peer_units_cache = <<>> THEN PeerUnitsNow ELSE peer_units_cache[1]

\* brokers without the running unit
brokers_peers_only == peer_units_data_interfaces

\* ClusterState.brokers, as the set of the brokers' ordinals
brokers == peer_units_data_interfaces \cup {LocalUnit}

\* sorted(...) of a set of ordinals: the ascending sequence of its elements
RECURSIVE Sorted(_)
Sorted(S) ==
    IF S = {} THEN <<>>
    ELSE LET m == CHOOSE x \in S : \A y \in S : x <= y
         IN  <<m>> \o Sorted(S \ {m})

\* ClusterState.bootstrap_servers_external: the joined entries, in order
bootstrap_servers_external ==
    [i \in 1..Cardinality(brokers) |-> BootstrapServerExternal(Sorted(brokers)[i])]

\* bootstrap_server that never hands out the external addresses
bootstrap_server_internal_only ==
    IF ~peer_relation THEN <<>>
    ELSE [i \in 1..Cardinality(brokers) |->
             <<InternalAddress(Sorted(brokers)[i]), SecurityProtocolPorts(security_protocol)>>]

\* ClusterState.bootstrap_server: the joined entries, in order; <<>> is ""
bootstrap_server ==
    IF ~peer_relation THEN <<>>
    ELSE IF expose_nodeport THEN bootstrap_servers_external
    ELSE [i \in 1..Cardinality(brokers) |->
             <<InternalAddress(Sorted(brokers)[i]), SecurityProtocolPorts(security_protocol)>>]

\* the client relations a model run can have, by relation id
MaxClients == 2
ClientIds == 1..MaxClients

\* literals.INTERNAL_USERS: the fixed internal service accounts
InternalUsers == {"admin", "sync"}

\* values of a client's "extra-user-roles" field; "" when the field is not set
ExtraUserRoles == {"", "consumer", "admin", "producer,admin"}

\* "admin" in extra_user_roles
ContainsAdmin(roles) == roles \in {"admin", "producer,admin"}

\* a client relation: its remote application is there, the roles it requests, and
\* whether cluster.relation_data holds a password under relation-<id>
ClientRelations == [app : BOOLEAN, roles : ExtraUserRoles, password : BOOLEAN]

\* f"User:{user}" for an internal account and for relation-<id>
InternalUserEntry(name) == <<"User:", name, 0>>
RelationUserEntry(id) == <<"User:", "relation-", id>>

\* the place of an entry in the lexicographic order of the formatted strings:
\* User:admin, User:relation-1, User:relation-2, ..., User:sync
EntryRank(entry) ==
    IF entry[2] = "relation-" THEN entry[3]
    ELSE IF entry[2] = "admin" THEN 0
    ELSE MaxClients + 2

\* sorted(...) of a set of entries
RECURSIVE SortedEntries(_)
SortedEntries(S) ==
    IF S = {} THEN <<>>
    ELSE LET m == CHOOSE x \in S : \A y \in S : EntryRank(x) <= EntryRank(y)
         IN  <<m>> \o SortedEntries(S \ {m})

\* super_users that takes every client asking for admin, password or not
super_users_without_password_check(relations) ==
    SortedEntries({InternalUserEntry(name) : name \in InternalUsers}
                  \cup {RelationUserEntry(id) :
                            id \in {i \in DOMAIN relations :
                                       /\ relations[i].app
                                       /\ ContainsAdmin(relations[i].roles)}})

\* ClusterState.super_users: the entries joined by ";", in order
super_users(relations) ==
    SortedEntries({InternalUserEntry(name) : name \in InternalUsers}
                  \cup {RelationUserEntry(id) :
                            id \in {i \in DOMAIN relations :
                                       /\ relations[i].app
                                       /\ ContainsAdmin(relations[i].roles)
                                       /\ relations[i].password}})

(***************************************************************************)
(* charm.py: one handler pass                                              *)
(*                                                                         *)
(* A pass works on a record s of what a handler can change:                *)
(*   status (unit.status), active (workload running), props / jaas (the    *)
(*   two configuration files), trace (what the pass did, in order),        *)
(* and of what the pass reads from the unit's surroundings:                *)
(*   can_connect (unit.get_container(CONTAINER).can_connect()),            *)
(*   is_leader (unit.is_leader()),                                         *)
(*   client (the client relation: none | no_password | password).          *)
(* Relation data is only read during a pass.  Trace entries are pairs      *)
(* <<kind, detail>>.                                                       *)
(***************************************************************************)

Statuses ==
    ReadyStatuses \cup
    {"SERVICE_NOT_RUNNING", "ZK_NOT_CONNECTED", "ADDED_STORAGE", "REMOVED_STORAGE",
     "REMOVED_STORAGE_NO_REPL", "UNSET"}

FileStates == {"none", "stale", "current"}

\* isinstance(key.value.status, ActiveStatus) for the keys ready_to_start returns
IsActiveStatus(key) == key = "ACTIVE"

Log(s, kind, detail) == [s EXCEPT !.trace = Append(@, <<kind, detail>>)]

\* KafkaCharm._set_status
SetStatus(s, key) == [s EXCEPT !.status = key]

\* healthy that only asks whether the service runs
HealthyWithoutReadiness(s) ==
    LET s1 == Log(SetStatus(s, ready_to_start), "ready_to_start", ready_to_start)
    IN  IF ~s1.active THEN [s |-> SetStatus(s1, "SERVICE_NOT_RUNNING"), ok |-> FALSE]
        ELSE [s |-> s1, ok |-> TRUE]

\* KafkaCharm.healthy: the pass state after the call, and the value returned
Healthy(s) ==
    LET s1 == Log(SetStatus(s, ready_to_start), "ready_to_start", ready_to_start)
    IN  IF ~IsActiveStatus(s1.status) THEN [s |-> s1, ok |-> FALSE]
        ELSE IF ~s1.active THEN [s |-> SetStatus(s1, "SERVICE_NOT_RUNNING"), ok |-> FALSE]
        ELSE [s |-> s1, ok |-> TRUE]

\* update_client_data that any unit runs
UpdateClientDataAnyUnit(s) ==
    LET s0 == Log(s, "enter", "update_client_data")
        h == Healthy(s0)
    IN  IF ~h.ok THEN Log(h.s, "return_early", "update_client_data")
        ELSE IF s.client = "password"
             THEN Log(Log(h.s, "write", "client_data"), "return", "update_client_data")
             ELSE Log(h.s, "return", "update_client_data")

\* KafkaCharm.update_client_data
UpdateClientData(s) ==
    LET s0 == Log(s, "enter", "update_client_data")
    IN  IF ~s.is_leader THEN Log(s0, "return_early", "update_client_data")
        ELSE LET h == Healthy(s0)
             IN  IF ~h.ok THEN Log(h.s, "return_early", "update_client_data")
                 ELSE IF s.client = "password"
                      THEN Log(Log(h.s, "write", "client_data"), "return", "update_client_data")
                      ELSE Log(h.s, "return", "update_client_data")

\* _on_config_changed that asks for the restart lock on every pass
ConfigChangedBodyAlwaysRestarting(s, ev) ==
    LET properties_changed == s.props # "current"
        zk_jaas_changed == s.jaas # "current"
    IN  IF s.props = "none" \/ s.jaas = "none"
        THEN Log(Log(s, "defer", ev), "return_early", "config_changed")
        ELSE LET s1 == Log(s, "write", "environment")
                 s2 == IF zk_jaas_changed
                       THEN [Log(s1, "write", "zk_jaas") EXCEPT !.jaas = "current"]
                       ELSE s1
                 s3 == IF properties_changed
                       THEN [Log(s2, "write", "server_properties") EXCEPT !.props = "current"]
                       ELSE s2
                 s4 == Log(s3, "emit", "acquire_lock")
                 s5 == Log(s4, "write", "client_properties")
                 s6 == IF s.client # "none" /\ s.is_leader THEN UpdateClientData(s5) ELSE s5
             IN  Log(s6, "return", "config_changed")

\* KafkaCharm._on_config_changed, lines 220-268: past the first gate
ConfigChangedBody(s, ev) ==
    LET properties_changed == s.props # "current"
        zk_jaas_changed == s.jaas # "current"
    IN  IF s.props = "none" \/ s.jaas = "none"
        THEN Log(Log(s, "defer", ev), "return_early", "config_changed")
        ELSE LET s1 == Log(s, "write", "environment")
                 s2 == IF zk_jaas_changed
                       THEN [Log(s1, "write", "zk_jaas") EXCEPT !.jaas = "current"]
                       ELSE s1
                 s3 == IF properties_changed
                       THEN [Log(s2, "write", "server_properties") EXCEPT !.props = "current"]
                       ELSE s2
                 s4 == IF zk_jaas_changed \/ properties_changed
                       THEN Log(s3, "emit", "acquire_lock")
                       ELSE s3
                 s5 == Log(s4, "write", "client_properties")
                 s6 == IF s.client # "none" /\ s.is_leader THEN UpdateClientData(s5) ELSE s5
             IN  Log(s6, "return", "config_changed")

\* _on_config_changed that returns at its first gate without deferring
OnConfigChangedNoDefer(s, ev) ==
    LET s0 == Log(s, "enter", "config_changed")
    IN  IF ~upgrade_idle
        THEN Log(s0, "return_early", "config_changed")
        ELSE LET h == Healthy(s0)
             IN  IF ~h.ok
                 THEN Log(h.s, "return_early", "config_changed")
                 ELSE ConfigChangedBody(h.s, ev)

\* KafkaCharm._on_config_changed
OnConfigChanged(s, ev) ==
    LET s0 == Log(s, "enter", "config_changed")
    IN  IF ~upgrade_idle
        THEN Log(Log(s0, "defer", ev), "return_early", "config_changed")
        ELSE LET h == Healthy(s0)
             IN  IF ~h.ok
                 THEN Log(Log(h.s, "defer", ev), "return_early", "config_changed")
                 ELSE ConfigChangedBody(h.s, ev)

\* KafkaCharm._on_update_status; broker_active is state.zookeeper.broker_active();
\* stays_active: the service still runs when the emitted config_changed pass asks
\* workload.active() again (the service is a process of its own and may stop
\* between the two calls)
OnUpdateStatus(s, broker_active, stays_active) ==
    LET s0 == Log(s, "enter", "update_status")
    IN  IF ~upgrade_idle THEN Log(s0, "return_early", "update_status")
        ELSE LET h == Healthy(s0)
             IN  IF ~h.ok THEN Log(h.s, "return_early", "update_status")
                 ELSE IF ~broker_active
                 THEN Log(SetStatus(h.s, "ZK_NOT_CONNECTED"), "return_not_connected",
                          "update_status")
                 ELSE LET s1 == [Log(h.s, "emit", "config_changed")
                                   EXCEPT !.active = @ /\ stays_active]
                          s2 == OnConfigChanged(s1, "config_changed")
                      IN  Log(SetStatus(s2, "ACTIVE"), "return", "update_status")

\* KafkaCharm._on_kafka_pebble_ready, lines 181-192: the TLS files
PebbleReadyTls(s) ==
    IF tls_enabled /\ certificate /\ ca
    THEN Log(Log(Log(Log(Log(s, "tls", "set_server_key"), "tls", "set_ca"),
                     "tls", "set_certificate"), "tls", "set_truststore"),
             "tls", "set_keystore")
    ELSE s

\* KafkaCharm._on_kafka_pebble_ready; start_ok: the service runs after workload.start
OnKafkaPebbleReady(s, ev, start_ok, broker_active, stays_active) ==
    LET s0 == Log(s, "enter", "kafka_pebble_ready")
    IN  IF ~upgrade_idle THEN Log(s0, "return_early", "kafka_pebble_ready")
        ELSE LET s1 == Log(SetStatus(s0, ready_to_start), "ready_to_start", ready_to_start)
             IN  IF ~IsActiveStatus(s1.status)
                 THEN Log(Log(s1, "defer", ev), "return_early", "kafka_pebble_ready")
                 ELSE LET s2 == [Log(s1, "write", "server_properties")
                                   EXCEPT !.props = "current"]
                          s3 == [Log(s2, "write", "zk_jaas") EXCEPT !.jaas = "current"]
                          s4 == Log(s3, "write", "client_properties")
                          s5 == PebbleReadyTls(s4)
                          s6 == [Log(s5, "workload", "start") EXCEPT !.active = start_ok]
                          s7 == OnUpdateStatus(Log(s6, "emit", "update_status"), broker_active,
                                               stays_active)
                      IN  Log(s7, "return", "kafka_pebble_ready")

OnStartExposing(s, start_ok, broker_active, stays_active) ==
    Log(OnKafkaPebbleReady(s, "start", start_ok, broker_active, stays_active),
        "k8s", "create_bootstrap_service")

\* KafkaCharm._on_start
OnStart(s, start_ok, broker_active, stays_active) ==
    OnKafkaPebbleReady(s, "start", start_ok, broker_active, stays_active)

\* KafkaCharm._on_install
OnInstall(s) ==
    LET s0 == Log(s, "enter", "install")
    IN  IF ~s.can_connect THEN Log(Log(s0, "defer", "install"), "return_early", "install")
        ELSE Log(Log(s0, "write", "environment"), "return", "install")

\* KafkaCharm._on_secret_changed; label_matches: the secret is the peer "extra" secret
OnSecretChanged(s, label_matches) ==
    LET s0 == Log(s, "enter", "secret_changed")
    IN  IF ~peer_relation THEN Log(s0, "return_early", "secret_changed")
        ELSE IF label_matches
        THEN Log(OnConfigChanged(Log(s0, "emit", "config_changed"), "config_changed"),
                 "return", "secret_changed")
        ELSE Log(s0, "return", "secret_changed")

\* KafkaCharm._on_storage_attached
OnStorageAttached(s) ==
    LET s0 == Log(s, "enter", "storage_attached")
    IN  IF s0.active
        THEN Log(OnConfigChanged(SetStatus(s0, "ADDED_STORAGE"), "storage_attached"),
                 "return", "storage_attached")
        ELSE Log(s0, "return", "storage_attached")

\* _on_storage_detaching whose emitted event is handled once it has returned
OnStorageDetachingQueued(s, has_peers) ==
    LET s0 == Log(s, "enter", "storage_detaching")
        s1 == IF peer_relation /\ has_peers
              THEN SetStatus(s0, "REMOVED_STORAGE")
              ELSE SetStatus(s0, "REMOVED_STORAGE_NO_REPL")
    IN  OnConfigChanged(Log(Log(s1, "emit", "config_changed"), "return", "storage_detaching"),
                        "config_changed")

\* KafkaCharm._on_storage_detaching; has_peers: len(peer_relation.units) > 0
OnStorageDetaching(s, has_peers) ==
    LET s0 == Log(s, "enter", "storage_detaching")
        s1 == IF peer_relation /\ has_peers
              THEN SetStatus(s0, "REMOVED_STORAGE")
              ELSE SetStatus(s0, "REMOVED_STORAGE_NO_REPL")
    IN  Log(OnConfigChanged(Log(s1, "emit", "config_changed"), "config_changed"),
            "return", "storage_detaching")

\* KafkaCharm._restart; restart_ok: the service runs after workload.restart
OnRestart(s, restart_ok) ==
    LET s0 == Log(s, "enter", "restart")
        h == Healthy(s0)
    IN  IF ~h.ok THEN Log(Log(h.s, "defer", "restart"), "return_early", "restart")
        ELSE LET s1 == [Log(h.s, "workload", "restart") EXCEPT !.active = restart_ok]
             IN  Log(Healthy(s1).s, "return", "restart")

(***************************************************************************)
(* The charm process: one action per event delivered to the unit.  A       *)
(* handler runs to completion, handlers of the events it emits included.   *)
(***************************************************************************)

ClientStates == {"none", "no_password", "password"}

\* the pass state a handler starts from
PassStart(can_connect, is_leader, client) ==
    [status |-> unit_status, active |-> workload_active, props |-> server_properties,
     jaas |-> zk_jaas, trace |-> <<>>,
     can_connect |-> can_connect, is_leader |-> is_leader, client |-> client]

\* the unit after a pass that ended in pass state s; passes never overlap: an event
\* is only delivered once the pass before it has ended
Commit(s) ==
    /\ pass = <<>>
    /\ unit_status' = s.status
    /\ workload_active' = s.active
    /\ server_properties' = s.props
    /\ zk_jaas' = s.jaas
    /\ pass' = s.trace
    /\ UNCHANGED <<cluster_vars, view_vars, k8s_vars, tls_vars, sans_vars, client_vars, upgrade_idle>>

Install == \E can_connect \in BOOLEAN :
    Commit(OnInstall(PassStart(can_connect, FALSE, "none")))

Start == \E start_ok \in BOOLEAN, broker_active \in BOOLEAN, stays_active \in BOOLEAN,
            is_leader \in BOOLEAN, client \in ClientStates :
    Commit(OnStart(PassStart(TRUE, is_leader, client), start_ok, broker_active,
                   stays_active))

KafkaPebbleReady == \E start_ok \in BOOLEAN, broker_active \in BOOLEAN,
                       stays_active \in BOOLEAN,
                       is_leader \in BOOLEAN, client \in ClientStates :
    Commit(OnKafkaPebbleReady(PassStart(TRUE, is_leader, client), "kafka_pebble_ready",
                              start_ok, broker_active, stays_active))

\* config_changed and the peer relation_changed event share the handler
ConfigChanged == \E is_leader \in BOOLEAN, client \in ClientStates :
    Commit(OnConfigChanged(PassStart(TRUE, is_leader, client), "config_changed"))

UpdateStatus == \E broker_active \in BOOLEAN, stays_active \in BOOLEAN,
                   is_leader \in BOOLEAN, client \in ClientStates :
    Commit(OnUpdateStatus(PassStart(TRUE, is_leader, client), broker_active,
                          stays_active))

SecretChanged == \E label_matches \in BOOLEAN, is_leader \in BOOLEAN, client \in ClientStates :
    Commit(OnSecretChanged(PassStart(TRUE, is_leader, client), label_matches))

StorageAttached == \E is_leader \in BOOLEAN, client \in ClientStates :
    Commit(OnStorageAttached(PassStart(TRUE, is_leader, client)))

StorageDetaching == \E has_peers \in BOOLEAN, is_leader \in BOOLEAN, client \in ClientStates :
    Commit(OnStorageDetaching(PassStart(TRUE, is_leader, client), has_peers))

Restart == \E restart_ok \in BOOLEAN :
    Commit(OnRestart(PassStart(TRUE, FALSE, "none"), restart_ok))

\* update_client_data called from outside the handlers of charm.py
UpdateClientDataCall == \E is_leader \in BOOLEAN, client \in ClientStates :
    Commit(UpdateClientData(PassStart(TRUE, is_leader, client)))

(***************************************************************************)
(* The surroundings: relation data, upgrade, workload.  They change        *)
(* between passes.                                                         *)
(***************************************************************************)

PeerRelationChanges ==
    /\ peer_relation' = ~peer_relation
    /\ pass = <<>>
    /\ UNCHANGED <<k8s_vars, tls_vars, sans_vars, client_vars, zookeeper_relation, zookeeper_connected, tls_enabled, zookeeper_tls,
                   certificate, ca, internal_user_credentials, view_vars,
                   upgrade_idle, workload_active, server_properties, zk_jaas, unit_status, pass>>

ZooKeeperRelationChanges ==
    /\ zookeeper_relation' = ~zookeeper_relation
    /\ pass = <<>>
    /\ UNCHANGED <<k8s_vars, tls_vars, sans_vars, client_vars, peer_relation, zookeeper_connected, tls_enabled, zookeeper_tls,
                   certificate, ca, internal_user_credentials, view_vars,
                   upgrade_idle, workload_active, server_properties, zk_jaas, unit_status, pass>>

ZooKeeperDataChanges ==
    /\ zookeeper_connected' = ~zookeeper_connected
    /\ pass = <<>>
    /\ UNCHANGED <<k8s_vars, tls_vars, sans_vars, client_vars, peer_relation, zookeeper_relation, tls_enabled, zookeeper_tls,
                   certificate, ca, internal_user_credentials, view_vars,
                   upgrade_idle, workload_active, server_properties, zk_jaas, unit_status, pass>>

ClusterTlsChanges ==
    /\ tls_enabled' = ~tls_enabled
    /\ pass = <<>>
    /\ UNCHANGED <<k8s_vars, tls_vars, sans_vars, client_vars, peer_relation, zookeeper_relation, zookeeper_connected, zookeeper_tls,
                   certificate, ca, internal_user_credentials, view_vars,
                   upgrade_idle, workload_active, server_properties, zk_jaas, unit_status, pass>>

ZooKeeperTlsChanges ==
    /\ zookeeper_tls' = ~zookeeper_tls
    /\ pass = <<>>
    /\ UNCHANGED <<k8s_vars, tls_vars, sans_vars, client_vars, peer_relation, zookeeper_relation, zookeeper_connected, tls_enabled,
                   certificate, ca, internal_user_credentials, view_vars,
                   upgrade_idle, workload_active, server_properties, zk_jaas, unit_status, pass>>

\* a signed certificate is issued to the unit, or removed
CertificateChanges ==
    /\ certificate' = ~certificate
    /\ pass = <<>>
    /\ UNCHANGED <<k8s_vars, tls_vars, sans_vars, client_vars, peer_relation, zookeeper_relation, zookeeper_connected, tls_enabled,
                   zookeeper_tls, ca, internal_user_credentials, view_vars,
                   upgrade_idle, workload_active, server_properties, zk_jaas, unit_status, pass>>

CaChanges ==
    /\ ca' = ~ca
    /\ pass = <<>>
    /\ UNCHANGED <<k8s_vars, tls_vars, sans_vars, client_vars, peer_relation, zookeeper_relation, zookeeper_connected, tls_enabled,
                   zookeeper_tls, certificate, internal_user_credentials, view_vars,
                   upgrade_idle, workload_active, server_properties, zk_jaas, unit_status, pass>>

CredentialsChange ==
    /\ internal_user_credentials' = ~internal_user_credentials
    /\ pass = <<>>
    /\ UNCHANGED <<k8s_vars, tls_vars, sans_vars, client_vars, peer_relation, zookeeper_relation, zookeeper_connected, tls_enabled,
                   zookeeper_tls, certificate, ca, view_vars,
                   upgrade_idle, workload_active, server_properties, zk_jaas, unit_status, pass>>

UpgradeChanges ==
    /\ upgrade_idle' = ~upgrade_idle
    /\ pass = <<>>
    /\ UNCHANGED <<k8s_vars, tls_vars, sans_vars, client_vars, cluster_vars, view_vars, workload_active, server_properties, zk_jaas, unit_status, pass>>

\* the service stops by itself
WorkloadStops ==
    /\ workload_active
    /\ workload_active' = FALSE
    /\ pass = <<>>
    /\ UNCHANGED <<k8s_vars, tls_vars, sans_vars, client_vars, cluster_vars, view_vars, upgrade_idle, server_properties, zk_jaas, unit_status, pass>>

\* the service is started outside these handlers (Pebble, the upgrade handler)
WorkloadStarts ==
    /\ pass = <<>>
    /\ ~workload_active
    /\ workload_active' = TRUE
    /\ UNCHANGED <<k8s_vars, tls_vars, sans_vars, client_vars, cluster_vars, view_vars, upgrade_idle, server_properties, zk_jaas, unit_status, pass>>

\* the wanted server properties move away from the file on the workload
PropertiesDrift ==
    /\ server_properties = "current"
    /\ server_properties' = "stale"
    /\ pass = <<>>
    /\ UNCHANGED <<k8s_vars, tls_vars, sans_vars, client_vars, cluster_vars, view_vars, upgrade_idle, workload_active, zk_jaas, unit_status, pass>>

\* the wanted JAAS config moves away from the file on the workload
JaasDrifts ==
    /\ zk_jaas = "current"
    /\ zk_jaas' = "stale"
    /\ pass = <<>>
    /\ UNCHANGED <<k8s_vars, tls_vars, sans_vars, client_vars, cluster_vars, view_vars, upgrade_idle, workload_active, server_properties,
                   unit_status, pass>>

\* the pod is rescheduled: the workload's files are lost and the service is down
PodRescheduled ==
    /\ server_properties' = "none"
    /\ zk_jaas' = "none"
    /\ workload_active' = FALSE
    /\ pass = <<>>
    /\ UNCHANGED <<k8s_vars, tls_vars, sans_vars, client_vars, cluster_vars, view_vars, upgrade_idle, unit_status, pass>>

\* a unit joins the peer relation
PeerUnitJoins ==
    /\ pass = <<>>
    /\ \E u \in PeerOrdinals \ peer_units : peer_units' = peer_units \cup {u}
    /\ UNCHANGED <<k8s_vars, tls_vars, sans_vars, client_vars, cluster_vars, peer_units_cache, expose_nodeport, charm_vars>>

\* a unit departs from the peer relation
PeerUnitDeparts ==
    /\ pass = <<>>
    /\ \E u \in peer_units : peer_units' = peer_units \ {u}
    /\ UNCHANGED <<k8s_vars, tls_vars, sans_vars, client_vars, cluster_vars, peer_units_cache, expose_nodeport, charm_vars>>

\* the operator sets the expose-nodeport option
ExposeNodeportChanges ==
    /\ pass = <<>>
    /\ expose_nodeport' = ~expose_nodeport
    /\ UNCHANGED <<k8s_vars, tls_vars, sans_vars, client_vars, cluster_vars, peer_units, peer_units_cache, charm_vars>>

\* first access to peer_units_data_interfaces (by brokers, bootstrap_server, clients)
BrokersRead ==
    /\ peer_units_cache = <<>>
    /\ peer_units_cache' = <<PeerUnitsNow>>
    /\ UNCHANGED <<k8s_vars, tls_vars, sans_vars, client_vars, cluster_vars, peer_units, expose_nodeport, charm_vars>>

\* the hook ends: the pass is over, the charm and its ClusterState object are dropped,
\* and the next event can be delivered
HookExits ==
    /\ pass # <<>> \/ peer_units_cache # <<>>
    /\ pass' = <<>>
    /\ peer_units_cache' = <<>>
    /\ UNCHANGED <<k8s_vars, tls_vars, sans_vars, client_vars, cluster_vars, peer_units, expose_nodeport, upgrade_idle, workload_active,
                   server_properties, zk_jaas, unit_status>>

(***************************************************************************)
(* managers/k8s.py: K8sManager                                             *)
(*                                                                         *)
(* A call works on a record k of what the manager holds and of what the    *)
(* cluster holds:                                                          *)
(*   protocol (_security_protocol), pod / service (the two cached          *)
(*   properties: <<>> when not read yet), services (the cluster's          *)
(*   Services by name), live (uid of the unit's pod, 0 for none),          *)
(*   raised (the call ended in an exception), value (what it returned).    *)
(* A Service the code leaves without nodePort carries nodePort 0.          *)
(***************************************************************************)

MaxOrdinal == 1
MaxPodGen == 2
MaxAllocPorts == 2

(* The units in focus: the first and the last of the application.          *)
Ordinals == {0, MaxOrdinal}

(* What the API answers a request: it serves it, denies it (403), or fails  *)
(* otherwise (an ApiError of another status).                              *)
ApiOutcomes == {"ok", "forbidden", "error"}

(* What the lookup of the pod's node yields, once the pod is read: the     *)
(* node's address, or a pod without nodeName, a node without status, a     *)
(* node with no address of the types looked for, or a failed request.      *)
NodeOutcomes == {"address", "no_node_name", "no_status", "no_address"} \cup ApiOutcomes

NodePortRange == 30000..32767

PodName(u) == <<"kafka-k8s", "-", u>>

MechSuffix(protocol) ==
    IF protocol = "SASL_PLAINTEXT" THEN "sasl-plaintext" ELSE "sasl-ssl"

ServiceName(u, protocol) == <<PodName(u), MechSuffix(protocol)>>

BootstrapServiceName(u) == <<PodName(u), "bootstrap">>

BootstrapNodePortByMechanism(u, protocol) ==
    31000 + u * 10 + (IF protocol = "SASL_PLAINTEXT" THEN 0 ELSE 1)

BootstrapNodePort(u, protocol) == 31000 + u

ListenerPort(protocol, listener) == <<SecurityProtocolPorts(protocol), listener>>

NoOwnerReferences(u, uid) == << >>

OwnerReferences(u, uid) ==
    << [apiVersion |-> "v1", kind |-> "Pod", name |-> PodName(u), uid |-> uid,
        blockOwnerDeletion |-> FALSE] >>

Selector(u) == "statefulset.kubernetes.io/pod-name" :> PodName(u)

BootstrapServiceUnpinned(u, protocol, uid) ==
    [name |-> BootstrapServiceName(u),
     ownerReferences |-> OwnerReferences(u, uid),
     externalTrafficPolicy |-> "Local",
     type |-> "NodePort",
     selector |-> Selector(u),
     ports |-> << [protocol |-> "TCP",
                   port |-> ListenerPort(protocol, "client"),
                   targetPort |-> ListenerPort(protocol, "client"),
                   name |-> <<BootstrapServiceName(u), "port">>,
                   nodePort |-> 0] >>]

BootstrapService(u, protocol, uid) ==
    [name |-> BootstrapServiceName(u),
     ownerReferences |-> OwnerReferences(u, uid),
     externalTrafficPolicy |-> "Local",
     type |-> "NodePort",
     selector |-> Selector(u),
     ports |-> << [protocol |-> "TCP",
                   port |-> ListenerPort(protocol, "client"),
                   targetPort |-> ListenerPort(protocol, "client"),
                   name |-> <<BootstrapServiceName(u), "port">>,
                   nodePort |-> BootstrapNodePort(u, protocol)] >>]

NodeportService(u, protocol, uid) ==
    [name |-> ServiceName(u, protocol),
     ownerReferences |-> OwnerReferences(u, uid),
     externalTrafficPolicy |-> "Local",
     type |-> "NodePort",
     selector |-> Selector(u),
     ports |-> << [protocol |-> "TCP",
                   port |-> ListenerPort(protocol, "external"),
                   targetPort |-> ListenerPort(protocol, "external"),
                   name |-> <<ServiceName(u, protocol), "port">>,
                   nodePort |-> 0] >>]

(* The cluster API.  apply creates the Service or replaces the one of the  *)
(* same name; a nodePort left out is kept from the existing Service or     *)
(* else allocated; a nodePort another Service holds is refused.            *)
PortsInUse(svcs, name) == {svcs[n].ports[1].nodePort : n \in DOMAIN svcs \ {name}}

(* The ports the platform may hand out next: free ones of its pool, which  *)
(* holds the unit's bootstrap port; 0 when the pool is used up.            *)
AllocChoices(svcs, u) ==
    LET pool == {31000 + u + i : i \in 0..(MaxAllocPorts - 1)}
        free == pool \ PortsInUse(svcs, <<>>)
    IN  IF free = {} THEN {0} ELSE free

Upsert(svcs, obj) ==
    [n \in DOMAIN svcs \cup {obj.name} |-> IF n = obj.name THEN obj ELSE svcs[n]]

(* An exception leaves the call: the request it comes from, and what the   *)
(* API answered.                                                           *)
Raise(k, request, answer) ==
    [k EXCEPT !.raised = TRUE, !.failed = request, !.answer = answer]

ApiApply(k, obj, outcome, alloc) ==
    LET req  == obj.ports[1].nodePort
        port == IF req # 0 THEN req
                ELSE IF obj.name \in DOMAIN k.services
                     THEN k.services[obj.name].ports[1].nodePort
                     ELSE alloc
    IN  IF outcome # "ok" THEN Raise(k, "apply", outcome)
        ELSE IF port = 0 \/ port \in PortsInUse(k.services, obj.name)
        THEN Raise(k, "apply", "port_allocated")
        ELSE [k EXCEPT !.services = Upsert(k.services, [obj EXCEPT !.ports[1].nodePort = port])]

ApiGetPod(k, outcome) ==
    IF outcome # "ok" THEN Raise(k, "pod", outcome)
    ELSE IF k.live = 0 THEN Raise(k, "pod", "not_found")
    ELSE [k EXCEPT !.pod = <<k.live>>]

pod(k, outcome) == IF k.pod # <<>> THEN k ELSE ApiGetPod(k, outcome)

service_raising(k, u, outcome) ==
    IF k.service # <<>> THEN k
    ELSE IF outcome = "ok" /\ ServiceName(u, k.protocol) \in DOMAIN k.services
         THEN [k EXCEPT !.service = << <<k.services[ServiceName(u, k.protocol)]>> >>]
         ELSE Raise(k, "service", IF outcome = "ok" THEN "not_found" ELSE outcome)

service(k, u, outcome) ==
    IF k.service # <<>> THEN k
    ELSE IF outcome = "ok" /\ ServiceName(u, k.protocol) \in DOMAIN k.services
         THEN [k EXCEPT !.service = << <<k.services[ServiceName(u, k.protocol)]>> >>]
         ELSE [k EXCEPT !.service = << <<>> >>,
                        !.failed = "service",
                        !.answer = IF outcome = "ok" THEN "not_found" ELSE outcome]

node_port(k, u, outcome) ==
    LET k1 == service(k, u, outcome)
    IN  IF k1.raised THEN k1
        ELSE IF k1.service[1] = <<>>
        THEN [k1 EXCEPT !.value = -1]
        ELSE [k1 EXCEPT !.value = k1.service[1][1].ports[1].nodePort]

node(k, get_outcome, node_outcome) ==
    LET k1 == pod(k, get_outcome)
    IN  IF k1.raised THEN k1
        ELSE IF node_outcome = "no_node_name" THEN Raise(k1, "pod_spec", "ok")
        ELSE IF node_outcome \in ApiOutcomes \ {"ok"} THEN Raise(k1, "node", node_outcome)
        ELSE k1

node_ip(k, get_outcome, node_outcome) ==
    LET k1 == node(k, get_outcome, node_outcome)
    IN  IF k1.raised THEN k1
        ELSE IF node_outcome = "no_status" THEN Raise(k1, "node_status", "ok")
        ELSE IF node_outcome = "no_address" THEN [k1 EXCEPT !.address = ""]
        ELSE [k1 EXCEPT !.address = "node-ip"]

external_address(k, u, get_outcome, node_outcome, service_outcome) ==
    LET k1 == node_ip(k, get_outcome, node_outcome)
    IN  IF k1.raised THEN k1 ELSE node_port(k1, u, service_outcome)

create_bootstrap_service_create_only(k, u, get_outcome, apply_outcome, alloc) ==
    LET k1 == pod(k, get_outcome)
    IN  IF k1.raised THEN k1
        ELSE IF BootstrapServiceName(u) \in DOMAIN k1.services
             THEN Raise(k1, "apply", "already_exists")
             ELSE ApiApply(k1, BootstrapService(u, k1.protocol, k1.pod[1]), apply_outcome,
                           alloc)

create_bootstrap_service(k, u, get_outcome, apply_outcome, alloc) ==
    LET k1 == pod(k, get_outcome)
    IN  IF k1.raised THEN k1
        ELSE ApiApply(k1, BootstrapService(u, k1.protocol, k1.pod[1]), apply_outcome, alloc)

create_nodeport_service_recreating(k, u, get_outcome, apply_outcome, alloc) ==
    LET k1 == pod(k, get_outcome)
        k2 == [k1 EXCEPT !.services =
                  [n \in DOMAIN k1.services \ {ServiceName(u, k1.protocol)} |-> k1.services[n]]]
    IN  IF k1.raised THEN k1
        ELSE ApiApply(k2, NodeportService(u, k1.protocol, k1.pod[1]), apply_outcome, alloc)

create_nodeport_service(k, u, get_outcome, apply_outcome, alloc) ==
    LET k1 == pod(k, get_outcome)
    IN  IF k1.raised THEN k1
        ELSE ApiApply(k1, NodeportService(u, k1.protocol, k1.pod[1]), apply_outcome, alloc)

(***************************************************************************)
(* The manager's calls, and the cluster around it.                         *)
(***************************************************************************)

NoCall == [op |-> "none", raised |-> FALSE, existed |-> FALSE]

CallStart ==
    [protocol |-> mgr_protocol, pod |-> mgr_pod, service |-> mgr_service,
     services |-> services, live |-> pod_uid, raised |-> FALSE, value |-> 0,
     address |-> "none", failed |-> "none", answer |-> "none"]

CallEnd(k, op, name) ==
    /\ k8s_call = NoCall
    /\ mgr_pod' = k.pod
    /\ mgr_service' = k.service
    /\ services' = k.services
    /\ k8s_call' = [op |-> op, raised |-> k.raised, existed |-> name \in DOMAIN services]
    /\ UNCHANGED <<cluster_vars, view_vars, charm_vars, tls_vars, sans_vars, client_vars, unit_id, mgr_protocol, pod_uid,
                   pods_created>>

NewManager ==
    \E protocol \in AuthMechanisms :
        /\ k8s_call = NoCall
        /\ mgr_protocol' = protocol
        /\ mgr_pod' = <<>>
        /\ mgr_service' = <<>>
        /\ UNCHANGED <<cluster_vars, view_vars, charm_vars, tls_vars, sans_vars, client_vars, unit_id, k8s_call, advertised,
                       pod_uid, pods_created, services>>

SetSecurityProtocol ==
    \E protocol \in AuthMechanisms :
        /\ k8s_call = NoCall
        /\ mgr_protocol' = protocol
        /\ UNCHANGED <<cluster_vars, view_vars, charm_vars, tls_vars, sans_vars, client_vars, unit_id, mgr_pod, mgr_service,
                       k8s_call, advertised, pod_uid, pods_created, services>>

PodOutcomes == IF mgr_pod = <<>> THEN ApiOutcomes ELSE {"ok"}

ServiceOutcomes == IF mgr_service = <<>> THEN ApiOutcomes ELSE {"ok"}

CreateBootstrapService ==
    \E get_outcome \in PodOutcomes, apply_outcome \in ApiOutcomes,
       alloc \in AllocChoices(services, unit_id) :
        /\ CallEnd(create_bootstrap_service(CallStart, unit_id, get_outcome, apply_outcome,
                                            alloc),
                   "create_bootstrap_service", BootstrapServiceName(unit_id))
        /\ UNCHANGED advertised

CreateNodeportService ==
    \E get_outcome \in PodOutcomes, apply_outcome \in ApiOutcomes,
       alloc \in AllocChoices(services, unit_id) :
        /\ CallEnd(create_nodeport_service(CallStart, unit_id, get_outcome, apply_outcome,
                                           alloc),
                   "create_nodeport_service", ServiceName(unit_id, mgr_protocol))
        /\ UNCHANGED advertised

NodePort ==
    \E get_outcome \in ServiceOutcomes :
        LET k == node_port(CallStart, unit_id, get_outcome)
        IN  /\ CallEnd(k, "node_port", ServiceName(unit_id, mgr_protocol))
            /\ advertised' = << [protocol |-> mgr_protocol, port |-> k.value] >>

(* The unit's pod goes (the charm process with it) and comes back with a   *)
(* new uid; the garbage collector deletes a Service all of whose owners    *)
(* are gone.                                                               *)
PodRemoved ==
    /\ k8s_call = NoCall
    /\ pod_uid # 0
    /\ pod_uid' = 0
    /\ mgr_pod' = <<>>
    /\ mgr_service' = <<>>
    /\ UNCHANGED <<cluster_vars, view_vars, charm_vars, tls_vars, sans_vars, client_vars, unit_id, mgr_protocol, k8s_call,
                   advertised, pods_created, services>>

PodCreated ==
    /\ k8s_call = NoCall
    /\ pod_uid = 0
    /\ pods_created < MaxPodGen
    /\ pods_created' = pods_created + 1
    /\ pod_uid' = pods_created + 1
    /\ UNCHANGED <<cluster_vars, view_vars, charm_vars, tls_vars, sans_vars, client_vars, unit_id, mgr_protocol, mgr_pod,
                   mgr_service, k8s_call, advertised, services>>

Dangling(svc) ==
    /\ svc.ownerReferences # <<>>
    /\ \A i \in DOMAIN svc.ownerReferences : svc.ownerReferences[i].uid # pod_uid

GarbageCollect ==
    \E name \in DOMAIN services :
        /\ k8s_call = NoCall
        /\ Dangling(services[name])
        /\ services' = [n \in DOMAIN services \ {name} |-> services[n]]
        /\ UNCHANGED <<cluster_vars, view_vars, charm_vars, tls_vars, sans_vars, client_vars, unit_id, mgr_protocol, mgr_pod,
                       mgr_service, k8s_call, advertised, pod_uid, pods_created>>

(***************************************************************************)
(* managers/tls.py: TLSManager                                             *)
(*                                                                         *)
(* A call works on a record c of the workload's configuration directory:   *)
(*   files (the names present), aliases (the entries of truststore.jks),   *)
(*   perms (of each store: owner is the broker user and group, mode is     *)
(*   770), out (how the last command ended: "ok", or what the failed       *)
(*   command printed: "none" for no output, "already exists", "does not    *)
(*   exist", "other"; "killed" when the process died in it), raised (an    *)
(*   exception left the call), halted (the process died), trace (the       *)
(*   steps, in order, each with how it ended).                             *)
(* At most one command of a call fails for a reason of its own: fault      *)
(* names it, and how it fails.                                             *)
(***************************************************************************)

TlsFiles == {"server.key", "ca.pem", "server.pem", "client.pem", "truststore.jks",
             "keystore.p12"}

Stores == {"truststore.jks", "keystore.p12"}

Aliases == {"ca", "client"}

Commands == {"write-key", "write-ca", "write-cert", "import", "chown-truststore",
             "chmod-truststore", "pkcs12", "chown-keystore", "chmod-keystore", "delete",
             "rm-pem", "rm-stores"}

(* The CAs the certificates provider may hand out, told apart by a number; *)
(* 0 stands for no CA held.                                                *)
MaxCaVersions == 2

CaVersions == 1..MaxCaVersions

Faults == {[cmd |-> "none", kind |-> "none"]}
              \cup [cmd : Commands, kind : {"none", "other", "killed"}]

RootPerms == [owner |-> FALSE, mode |-> FALSE]

(* workload.write *)
Write(c, file, fault, cmd) ==
    IF fault.cmd = cmd THEN [c EXCEPT !.out = fault.kind]
    ELSE [c EXCEPT !.files = @ \cup {file}, !.out = "ok"]

(* keytool -import -alias .. -file .. -keystore truststore.jks *)
KeytoolImport(c, alias, file, fault) ==
    IF fault.cmd = "import" THEN [c EXCEPT !.out = fault.kind]
    ELSE IF file \notin c.files THEN [c EXCEPT !.out = "other"]
    ELSE IF alias \in c.aliases THEN [c EXCEPT !.out = "already exists"]
    ELSE [c EXCEPT !.files = @ \cup {"truststore.jks"},
                   !.aliases = @ \cup {alias},
                   !.trusted_ca = IF alias = "ca" THEN c.ca_pem ELSE @,
                   !.out = "ok"]

(* keytool -delete -alias .. -keystore truststore.jks *)
KeytoolDelete(c, alias, fault) ==
    IF fault.cmd = "delete" THEN [c EXCEPT !.out = fault.kind]
    ELSE IF "truststore.jks" \notin c.files \/ alias \notin c.aliases
    THEN [c EXCEPT !.out = "does not exist"]
    ELSE [c EXCEPT !.aliases = @ \ {alias},
                   !.trusted_ca = IF alias = "ca" THEN 0 ELSE @,
                   !.out = "ok"]

(* openssl pkcs12 -export -in server.pem -inkey server.key -out keystore.p12 *)
Pkcs12Export(c, fault) ==
    IF fault.cmd = "pkcs12" THEN [c EXCEPT !.out = fault.kind]
    ELSE IF ~({"server.pem", "server.key"} \subseteq c.files) THEN [c EXCEPT !.out = "other"]
    ELSE [c EXCEPT !.files = @ \cup {"keystore.p12"}, !.out = "ok"]

Chown(c, store, fault, cmd) ==
    IF fault.cmd = cmd THEN [c EXCEPT !.out = fault.kind]
    ELSE IF store \notin c.files THEN [c EXCEPT !.out = "other"]
    ELSE [c EXCEPT !.perms[store].owner = TRUE, !.out = "ok"]

Chmod(c, store, fault, cmd) ==
    IF fault.cmd = cmd THEN [c EXCEPT !.out = fault.kind]
    ELSE IF store \notin c.files THEN [c EXCEPT !.out = "other"]
    ELSE [c EXCEPT !.perms[store].mode = TRUE, !.out = "ok"]

(* rm -f <alias>.pem *)
RmPem(c, alias, fault) ==
    IF fault.cmd = "rm-pem" THEN [c EXCEPT !.out = fault.kind]
    ELSE [c EXCEPT !.files = @ \ {IF alias = "ca" THEN "ca.pem" ELSE "client.pem"},
                   !.ca_pem = IF alias = "ca" THEN 0 ELSE @,
                   !.out = "ok"]

(* rm -rf *.pem *.key *.p12 *.jks *)
RmStores(c, fault) ==
    IF fault.cmd = "rm-stores" THEN [c EXCEPT !.out = fault.kind]
    ELSE [c EXCEPT !.files = {}, !.aliases = {},
                   !.perms = [s \in Stores |-> RootPerms],
                   !.ca_pem = 0, !.trusted_ca = 0, !.out = "ok"]

(* The end of a step: it returns, or its except clause returns on a        *)
(* tolerated output, or the exception leaves it.                           *)
EndStep(c, step, tolerated) ==
    IF c.out = "killed"
    THEN [c EXCEPT !.halted = TRUE, !.trace = Append(@, <<step, "killed">>)]
    ELSE IF c.out = "ok" THEN [c EXCEPT !.trace = Append(@, <<step, "done">>)]
    ELSE IF c.out \in tolerated
    THEN [c EXCEPT !.trace = Append(@, <<step, c.out>>), !.out = "ok"]
    ELSE [c EXCEPT !.raised = TRUE, !.trace = Append(@, <<step, "raised">>)]

Skip(c, step) == [c EXCEPT !.trace = Append(@, <<step, "skipped">>)]

set_server_key(c, fault) ==
    IF ~private_key THEN Skip(c, "set_server_key")
    ELSE EndStep(Write(c, "server.key", fault, "write-key"), "set_server_key", {})

set_ca(c, fault) ==
    IF ~ca THEN Skip(c, "set_ca")
    ELSE LET c1 == Write(c, "ca.pem", fault, "write-ca")
         IN  EndStep(IF c1.out = "ok" THEN [c1 EXCEPT !.ca_pem = ca_versions.relation]
                     ELSE c1,
                     "set_ca", {})

set_certificate(c, fault) ==
    IF ~certificate THEN Skip(c, "set_certificate")
    ELSE EndStep(Write(c, "server.pem", fault, "write-cert"), "set_certificate", {})

set_truststore_strict(c, fault) ==
    LET c1 == KeytoolImport(c, "ca", "ca.pem", fault)
        c2 == IF c1.out = "ok" THEN Chown(c1, "truststore.jks", fault, "chown-truststore") ELSE c1
        c3 == IF c2.out = "ok" THEN Chmod(c2, "truststore.jks", fault, "chmod-truststore") ELSE c2
    IN  EndStep(c3, "set_truststore", {})

set_truststore(c, fault) ==
    LET c1 == KeytoolImport(c, "ca", "ca.pem", fault)
        c2 == IF c1.out = "ok" THEN Chown(c1, "truststore.jks", fault, "chown-truststore") ELSE c1
        c3 == IF c2.out = "ok" THEN Chmod(c2, "truststore.jks", fault, "chmod-truststore") ELSE c2
    IN  EndStep(c3, "set_truststore", {"already exists"})

set_keystore_swallowing(c, fault) ==
    LET c1 == Pkcs12Export(c, fault)
        c2 == IF c1.out = "ok" THEN Chown(c1, "keystore.p12", fault, "chown-keystore") ELSE c1
        c3 == IF c2.out = "ok" THEN Chmod(c2, "keystore.p12", fault, "chmod-keystore") ELSE c2
    IN  EndStep(c3, "set_keystore", {"none", "other"})

set_keystore(c, fault) ==
    LET c1 == Pkcs12Export(c, fault)
        c2 == IF c1.out = "ok" THEN Chown(c1, "keystore.p12", fault, "chown-keystore") ELSE c1
        c3 == IF c2.out = "ok" THEN Chmod(c2, "keystore.p12", fault, "chmod-keystore") ELSE c2
    IN  EndStep(c3, "set_keystore", {})

import_cert(c, alias, filename, fault) ==
    EndStep(KeytoolImport(c, alias, filename, fault), "import_cert", {"already exists"})

remove_cert(c, alias, fault) ==
    LET c1 == KeytoolDelete(c, alias, fault)
        c2 == IF c1.out = "ok" THEN RmPem(c1, alias, fault) ELSE c1
    IN  EndStep(c2, "remove_cert", {"does not exist"})

remove_stores_but_truststore(c, fault) ==
    EndStep(IF fault.cmd = "rm-stores" THEN [c EXCEPT !.out = fault.kind]
            ELSE [c EXCEPT !.files = @ \cap {"truststore.jks"},
                           !.perms["keystore.p12"] = RootPerms,
                           !.out = "ok"],
            "remove_stores", {})

remove_stores(c, fault) == EndStep(RmStores(c, fault), "remove_stores", {})

(* The next call of a handler runs if the last one returned.               *)
Stopped(c) == c.raised \/ c.halted

provision_certificate_first(c, fault) ==
    IF tls_enabled /\ certificate /\ ca
    THEN LET k1 == set_server_key(c, fault)
             k2 == IF Stopped(k1) THEN k1 ELSE set_certificate(k1, fault)
             k3 == IF Stopped(k2) THEN k2 ELSE set_ca(k2, fault)
             k4 == IF Stopped(k3) THEN k3 ELSE set_truststore(k3, fault)
             k5 == IF Stopped(k4) THEN k4 ELSE set_keystore(k4, fault)
         IN  k5
    ELSE c

(* KafkaCharm._on_kafka_pebble_ready: the stores are built again           *)
provision(c, fault) ==
    IF tls_enabled /\ certificate /\ ca
    THEN LET k1 == set_server_key(c, fault)
             k2 == IF Stopped(k1) THEN k1 ELSE set_ca(k1, fault)
             k3 == IF Stopped(k2) THEN k2 ELSE set_certificate(k2, fault)
             k4 == IF Stopped(k3) THEN k3 ELSE set_truststore(k3, fault)
             k5 == IF Stopped(k4) THEN k4 ELSE set_keystore(k4, fault)
         IN  k5
    ELSE c

(***************************************************************************)
(* The TLS manager's calls, and the unit around them.                      *)
(***************************************************************************)

TlsStart(op) ==
    [files |-> conf_files, aliases |-> aliases, perms |-> perms,
     ca_pem |-> ca_versions.pem, trusted_ca |-> ca_versions.truststore, out |-> "ok",
     raised |-> FALSE, halted |-> FALSE, trace |-> << <<"call", op>> >>]

TlsEnd(c) ==
    /\ tls_pass = <<>>
    /\ conf_files' = c.files
    /\ aliases' = c.aliases
    /\ perms' = c.perms
    /\ ca_versions' = [ca_versions EXCEPT !.pem = c.ca_pem, !.truststore = c.trusted_ca]
    /\ tls_pass' = c.trace
    /\ UNCHANGED <<cluster_vars, view_vars, charm_vars, k8s_vars, sans_vars, client_vars, private_key>>

ProvisionTls == \E fault \in Faults : TlsEnd(provision(TlsStart("provision"), fault))

SetTruststore == \E fault \in Faults : TlsEnd(set_truststore(TlsStart("set_truststore"), fault))

SetKeystore == \E fault \in Faults : TlsEnd(set_keystore(TlsStart("set_keystore"), fault))

ImportCert ==
    \E fault \in Faults :
        TlsEnd(import_cert(TlsStart("import_cert"), "client", "client.pem", fault))

RemoveCert ==
    \E fault \in Faults : TlsEnd(remove_cert(TlsStart("remove_cert"), "client", fault))

RemoveStores == \E fault \in Faults : TlsEnd(remove_stores(TlsStart("remove_stores"), fault))

(* The call is over.                                                       *)
TlsReturns ==
    /\ tls_pass # <<>>
    /\ tls_pass' = <<>>
    /\ UNCHANGED <<cluster_vars, view_vars, charm_vars, k8s_vars, sans_vars, client_vars, private_key, conf_files,
                   aliases, perms, ca_versions>>

(* A client's certificate is written next to the stores, to be imported.   *)
ClientCertWritten ==
    /\ tls_pass = <<>>
    /\ conf_files' = conf_files \cup {"client.pem"}
    /\ UNCHANGED <<cluster_vars, view_vars, charm_vars, k8s_vars, sans_vars, client_vars, private_key, aliases,
                   perms, ca_versions, tls_pass>>

(* The pod is rescheduled: every file of the directory is lost.            *)
ConfFilesLost ==
    /\ tls_pass = <<>>
    /\ conf_files # {}
    /\ conf_files' = {}
    /\ aliases' = {}
    /\ perms' = [s \in Stores |-> RootPerms]
    /\ ca_versions' = [ca_versions EXCEPT !.pem = 0, !.truststore = 0]
    /\ UNCHANGED <<cluster_vars, view_vars, charm_vars, k8s_vars, sans_vars, client_vars, private_key, tls_pass>>

PrivateKeyChanges ==
    /\ tls_pass = <<>>
    /\ private_key' = ~private_key
    /\ UNCHANGED <<cluster_vars, view_vars, charm_vars, k8s_vars, sans_vars, client_vars, conf_files, aliases, perms,
                   ca_versions, tls_pass>>

(* The certificate and the CA of the unit's relation data come and go.     *)
TlsRelationDataChanges ==
    /\ tls_pass = <<>>
    /\ CertificateChanges \/ CaChanges

(* The certificates provider replaces the CA of the unit's relation data   *)
(* by another one.                                                         *)
CaReplaced ==
    /\ tls_pass = <<>>
    /\ ca
    /\ \E version \in CaVersions \ {ca_versions.relation} :
           ca_versions' = [ca_versions EXCEPT !.relation = version]
    /\ UNCHANGED <<cluster_vars, view_vars, charm_vars, k8s_vars, sans_vars, client_vars, private_key,
                   conf_files, aliases, perms, tls_pass>>

(***************************************************************************)
(* TLSManager.build_sans.  A name or an address is its rank in the         *)
(* lexicographic order of strings: the list <<2, 1>> is not sorted, and    *)
(* <<1, 1>> holds a duplicate.                                             *)
(***************************************************************************)

MaxName == 3
MaxExtraSans == 2

Names == 1..MaxName

(* An entry of certificate_extra_sans: a name, or one with "{unit}" in it. *)
UnitTemplate == 0
ExtraSansEntries == Names \cup {UnitTemplate}

ExtraSansConfigs == UNION {[1..n -> ExtraSansEntries] : n \in 0..MaxExtraSans}

SansInputs ==
    [host : Names, bind_address : Names, node_ip : Names, unit_name : Names, fqdn : Names,
     templated : Names, certificate_extra_sans : ExtraSansConfigs]

(* TLSManager._build_extra_sans: the entries in the order of the option,   *)
(* "{unit}" replaced by the unit's id; none for the empty option.          *)
build_extra_sans(in) ==
    [i \in 1..Len(in.certificate_extra_sans) |->
        IF in.certificate_extra_sans[i] = UnitTemplate THEN in.templated
        ELSE in.certificate_extra_sans[i]]

(* On vm the lists are returned as they are put together.  On k8s the     *)
(* first list is the bind address and K8sManager(state=...).node_ip, and   *)
(* K8sManager.__init__ takes broker and security_protocol: the call raises *)
(* TypeError before any list is built.                                     *)
build_sans(sub, in) ==
    IF sub = "vm"
    THEN [raised |-> FALSE,
          sans_ip |-> <<in.host>>,
          sans_dns |-> <<in.unit_name, in.fqdn>> \o build_extra_sans(in)]
    ELSE [raised |-> TRUE, sans_ip |-> <<>>, sans_dns |-> <<>>]

BuildSans ==
    /\ sans = <<>>
    /\ sans' = <<build_sans(substrate, sans_input)>>
    /\ UNCHANGED <<cluster_vars, view_vars, charm_vars, k8s_vars, tls_vars, client_vars, substrate,
                   sans_input>>

(* The option, the addresses or the host name change.                      *)
SansInputChanges ==
    /\ sans # <<>>
    /\ \/ \E field \in {"host", "bind_address", "node_ip", "unit_name", "fqdn", "templated"},
              name \in Names :
              sans_input' = [sans_input EXCEPT ![field] = name]
       \/ \E option \in ExtraSansConfigs :
              sans_input' = [sans_input EXCEPT !.certificate_extra_sans = option]
    /\ sans' = <<>>
    /\ UNCHANGED <<cluster_vars, view_vars, charm_vars, k8s_vars, tls_vars, client_vars, substrate>>

(***************************************************************************)
(* The client relations, and the value of super_users read from them.      *)
(***************************************************************************)

ClientsUnchanged ==
    UNCHANGED <<cluster_vars, view_vars, charm_vars, k8s_vars, tls_vars, sans_vars>>

\* the relations without relation id
Without(relations, id) == [i \in DOMAIN relations \ {id} |-> relations[i]]

\* a client application is related: no roles requested, no password yet
ClientRelationCreated ==
    /\ \E id \in ClientIds \ DOMAIN client_relations :
          client_relations' =
              [i \in DOMAIN client_relations \cup {id} |->
                  IF i = id THEN [app |-> TRUE, roles |-> "", password |-> FALSE]
                  ELSE client_relations[i]]
    /\ pass = <<>>
    /\ UNCHANGED <<super_users_read, unit_is_leader, client_data_written>>
    /\ ClientsUnchanged

\* the client sets or changes extra-user-roles in its application data
ClientRequestsRoles ==
    /\ \E id \in DOMAIN client_relations, roles \in ExtraUserRoles :
          /\ client_relations[id].app
          /\ roles # client_relations[id].roles
          /\ client_relations' = [client_relations EXCEPT ![id].roles = roles]
    /\ pass = <<>>
    /\ UNCHANGED <<super_users_read, unit_is_leader, client_data_written>>
    /\ ClientsUnchanged

\* the leader stores the password generated for the client in the cluster data
ClientPasswordGenerated ==
    /\ \E id \in DOMAIN client_relations :
          /\ ~client_relations[id].password
          /\ client_relations' = [client_relations EXCEPT ![id].password = TRUE]
    /\ pass = <<>>
    /\ UNCHANGED <<super_users_read, unit_is_leader, client_data_written>>
    /\ ClientsUnchanged

\* the remote application leaves: the relation is still listed, without app or data
ClientAppLeaves ==
    /\ \E id \in DOMAIN client_relations :
          /\ client_relations[id].app
          /\ client_relations' =
                 [client_relations EXCEPT ![id].app = FALSE, ![id].roles = ""]
    /\ pass = <<>>
    /\ UNCHANGED <<super_users_read, unit_is_leader, client_data_written>>
    /\ ClientsUnchanged

\* the relation is gone, and the password stored for it
ClientRelationBroken ==
    /\ \E id \in DOMAIN client_relations :
          client_relations' = Without(client_relations, id)
    /\ pass = <<>>
    /\ UNCHANGED <<super_users_read, unit_is_leader, client_data_written>>
    /\ ClientsUnchanged

\* the unit becomes the leader, or another unit does
LeadershipChanges ==
    /\ pass = <<>>
    /\ unit_is_leader' = ~unit_is_leader
    /\ UNCHANGED <<client_relations, super_users_read, client_data_written>>
    /\ ClientsUnchanged

\* what a pass sees of the client relations: whether there is one, and whether
\* state.clients holds a client with a password
ClientsSeen ==
    IF DOMAIN client_relations = {} THEN "none"
    ELSE IF \E id \in DOMAIN client_relations :
                client_relations[id].app /\ client_relations[id].password
    THEN "password"
    ELSE "no_password"

\* update_client_data, lines 355-373: client.update for the clients with a password
ClientsUpdated ==
    {id \in DOMAIN client_relations :
        client_relations[id].app /\ client_relations[id].password}

\* a pass that may get to update_client_data, on the unit and the client relations
\* as they are
ClientDataPass(s) ==
    /\ pass = <<>>
    /\ unit_status' = s.status
    /\ workload_active' = s.active
    /\ server_properties' = s.props
    /\ zk_jaas' = s.jaas
    /\ pass' = s.trace
    /\ client_data_written' =
          IF \E i \in 1..Len(s.trace) : s.trace[i] = <<"write", "client_data">>
          THEN ClientsUpdated
          ELSE {}
    /\ UNCHANGED <<cluster_vars, view_vars, k8s_vars, tls_vars, sans_vars, upgrade_idle,
                   client_relations, super_users_read, unit_is_leader>>

\* the handlers of the client relation call update_client_data
ClientDataUpdate == ClientDataPass(UpdateClientData(PassStart(TRUE, unit_is_leader, ClientsSeen)))

\* config_changed on a unit with client relations
ClientDataConfigChanged ==
    ClientDataPass(OnConfigChanged(PassStart(TRUE, unit_is_leader, ClientsSeen), "config_changed"))

\* the hook ends, with what it wrote
ClientDataHookExits ==
    /\ pass # <<>>
    /\ pass' = <<>>
    /\ client_data_written' = {}
    /\ UNCHANGED <<cluster_vars, view_vars, k8s_vars, tls_vars, sans_vars, upgrade_idle,
                   workload_active, server_properties, zk_jaas, unit_status,
                   client_relations, super_users_read, unit_is_leader>>

\* ClusterState.super_users is evaluated
SuperUsersRead ==
    /\ super_users_read' = <<super_users(client_relations)>>
    /\ UNCHANGED <<client_relations, unit_is_leader, client_data_written>>
    /\ ClientsUnchanged

InitCharm ==
    /\ peer_relation = FALSE
    /\ zookeeper_relation = FALSE
    /\ zookeeper_connected = FALSE
    /\ tls_enabled = FALSE
    /\ zookeeper_tls = FALSE
    /\ certificate = FALSE
    /\ ca = FALSE
    /\ internal_user_credentials = FALSE
    /\ peer_units = {}
    /\ peer_units_cache = <<>>
    /\ expose_nodeport = FALSE
    /\ upgrade_idle = TRUE
    /\ workload_active = FALSE
    /\ server_properties = "none"
    /\ zk_jaas = "none"
    /\ unit_status = "UNSET"
    /\ pass = <<>>

(* The call is over: its caller has seen what it returned or raised.       *)
CallReturns ==
    /\ k8s_call # NoCall
    /\ k8s_call' = NoCall
    /\ UNCHANGED <<cluster_vars, view_vars, charm_vars, tls_vars, sans_vars, client_vars, unit_id, mgr_protocol,
                   mgr_pod, mgr_service, advertised, pod_uid, pods_created, services>>

InitManager ==
    /\ mgr_protocol = "SASL_PLAINTEXT"
    /\ mgr_pod = <<>>
    /\ mgr_service = <<>>
    /\ k8s_call = NoCall
    /\ advertised = <<>>
    /\ pod_uid = 1
    /\ pods_created = 1
    /\ services = [n \in {} |-> n]

InitTlsManager ==
    /\ private_key = FALSE
    /\ conf_files = {}
    /\ aliases = {}
    /\ perms = [s \in Stores |-> RootPerms]
    /\ ca_versions = [relation |-> 1, pem |-> 0, truststore |-> 0]
    /\ tls_pass = <<>>

InitSans ==
    /\ substrate = "k8s"
    /\ sans_input = [host |-> 1, bind_address |-> 1, node_ip |-> 1, unit_name |-> 1,
                     fqdn |-> 1, templated |-> 1, certificate_extra_sans |-> <<>>]
    /\ sans = <<>>

InitClients ==
    /\ client_relations = <<>>
    /\ super_users_read = <<>>
    /\ unit_is_leader = FALSE
    /\ client_data_written = {}

Init ==
    InitCharm /\ InitManager /\ InitTlsManager /\ InitSans /\ InitClients
        /\ unit_id = LocalUnit

Next ==
    \/ Install
    \/ Start
    \/ KafkaPebbleReady
    \/ ConfigChanged
    \/ UpdateStatus
    \/ SecretChanged
    \/ StorageAttached
    \/ StorageDetaching
    \/ Restart
    \/ UpdateClientDataCall
    \/ PeerRelationChanges
    \/ ZooKeeperRelationChanges
    \/ ZooKeeperDataChanges
    \/ ClusterTlsChanges
    \/ ZooKeeperTlsChanges
    \/ CertificateChanges
    \/ CaChanges
    \/ CredentialsChange
    \/ UpgradeChanges
    \/ WorkloadStops
    \/ WorkloadStarts
    \/ PropertiesDrift
    \/ JaasDrifts
    \/ PodRescheduled
    \/ HookExits

Spec == Init /\ [][Next]_vars

(***************************************************************************)
(* ClusterState alone: the relation data changes freely, the update-status *)
(* handler evaluates the readiness, bootstrap_server reads the brokers.    *)
(***************************************************************************)

NextCluster ==
    \/ PeerRelationChanges
    \/ ZooKeeperRelationChanges
    \/ ZooKeeperDataChanges
    \/ ClusterTlsChanges
    \/ ZooKeeperTlsChanges
    \/ CertificateChanges
    \/ CredentialsChange
    \/ PeerUnitJoins
    \/ PeerUnitDeparts
    \/ ExposeNodeportChanges
    \/ BrokersRead
    \/ UpdateStatus
    \/ HookExits

SpecCluster == Init /\ [][NextCluster]_vars

(***************************************************************************)
(* K8sManager alone, for the unit of any ordinal: the manager is built,    *)
(* its calls are made in any order and with any API outcome, the pod and   *)
(* the garbage collector act in between.                                   *)
(***************************************************************************)

InitK8s == InitCharm /\ InitManager /\ InitTlsManager /\ InitSans /\ InitClients /\ unit_id \in Ordinals

NextK8s ==
    \/ NewManager
    \/ SetSecurityProtocol
    \/ CreateBootstrapService
    \/ CreateNodeportService
    \/ NodePort
    \/ PodRemoved
    \/ PodCreated
    \/ GarbageCollect
    \/ CallReturns

SpecK8s == InitK8s /\ [][NextK8s]_vars

(***************************************************************************)
(* The manager's calls against the API, while the unit has its pod or      *)
(* after it lost it: nothing is collected and no pod comes back.           *)
(***************************************************************************)

NextK8sCalls ==
    \/ NewManager
    \/ SetSecurityProtocol
    \/ CreateBootstrapService
    \/ CreateNodeportService
    \/ NodePort
    \/ PodRemoved
    \/ CallReturns

SpecK8sCalls == InitK8s /\ [][NextK8sCalls]_vars

(***************************************************************************)
(* TLSManager alone, on a unit of a cluster with TLS enabled: the relation *)
(* data comes and goes, the manager's calls are made in any order, each    *)
(* with at most one command failing or the process dying in it.            *)
(***************************************************************************)

InitTls ==
    /\ peer_relation = TRUE
    /\ zookeeper_relation = FALSE
    /\ zookeeper_connected = FALSE
    /\ tls_enabled = TRUE
    /\ zookeeper_tls = FALSE
    /\ certificate = FALSE
    /\ ca = FALSE
    /\ internal_user_credentials = FALSE
    /\ peer_units = {}
    /\ peer_units_cache = <<>>
    /\ expose_nodeport = FALSE
    /\ upgrade_idle = TRUE
    /\ workload_active = FALSE
    /\ server_properties = "none"
    /\ zk_jaas = "none"
    /\ unit_status = "UNSET"
    /\ pass = <<>>
    /\ InitManager
    /\ InitTlsManager
    /\ InitSans
    /\ InitClients
    /\ unit_id = LocalUnit

NextTls ==
    \/ ProvisionTls
    \/ SetTruststore
    \/ SetKeystore
    \/ ImportCert
    \/ RemoveCert
    \/ RemoveStores
    \/ TlsReturns
    \/ ClientCertWritten
    \/ ConfFilesLost
    \/ PrivateKeyChanges
    \/ TlsRelationDataChanges
    \/ CaReplaced

SpecTls == InitTls /\ [][NextTls]_vars

(***************************************************************************)
(* build_sans alone, on either substrate, for every input it may read.     *)
(***************************************************************************)

InitBuildSans ==
    /\ InitCharm
    /\ InitManager
    /\ InitTlsManager
    /\ InitClients
    /\ unit_id = LocalUnit
    /\ substrate \in {"vm", "k8s"}
    /\ sans_input \in SansInputs
    /\ sans = <<>>

NextBuildSans == BuildSans \/ SansInputChanges

SpecBuildSans == InitBuildSans /\ [][NextBuildSans]_vars

(***************************************************************************)
(* The client relations alone: clients come, request roles, get their      *)
(* password and go, and super_users is read in between.                    *)
(***************************************************************************)

NextClients ==
    \/ ClientRelationCreated
    \/ ClientRequestsRoles
    \/ ClientPasswordGenerated
    \/ ClientAppLeaves
    \/ ClientRelationBroken
    \/ SuperUsersRead

SpecClients == Init /\ [][NextClients]_vars

(***************************************************************************)
(* Client data: a unit of a cluster that has started, leader or not, with  *)
(* clients coming and going; the service stops and starts and the broker   *)
(* credentials come and go, so that the unit is healthy or not.            *)
(***************************************************************************)

InitClientData ==
    /\ peer_relation = TRUE
    /\ zookeeper_relation = TRUE
    /\ zookeeper_connected = TRUE
    /\ tls_enabled = FALSE
    /\ zookeeper_tls = FALSE
    /\ certificate = FALSE
    /\ ca = FALSE
    /\ internal_user_credentials = TRUE
    /\ peer_units = {}
    /\ peer_units_cache = <<>>
    /\ expose_nodeport = FALSE
    /\ upgrade_idle = TRUE
    /\ workload_active = TRUE
    /\ server_properties = "current"
    /\ zk_jaas = "current"
    /\ unit_status = "ACTIVE"
    /\ pass = <<>>
    /\ InitManager
    /\ InitTlsManager
    /\ InitSans
    /\ InitClients
    /\ unit_id = LocalUnit

NextClientData ==
    \/ ClientRelationCreated
    \/ ClientRequestsRoles
    \/ ClientPasswordGenerated
    \/ ClientAppLeaves
    \/ ClientRelationBroken
    \/ LeadershipChanges
    \/ CredentialsChange
    \/ WorkloadStops
    \/ WorkloadStarts
    \/ ClientDataUpdate
    \/ ClientDataConfigChanged
    \/ ClientDataHookExits

SpecClientData == InitClientData /\ [][NextClientData]_vars

(***************************************************************************)
(* Claims                                                                  *)
(***************************************************************************)

\* the readiness values a pass has read, in order
ReadinessRead == SelectSeq(pass, LAMBDA e : e[1] = "ready_to_start")

\* The decision chain of the readiness evaluation, rule by rule
ReadinessRules ==
    << [matches |-> ~peer_relation,                    status |-> "NO_PEER_RELATION"],
       [matches |-> ~zookeeper_relation,               status |-> "ZK_NOT_RELATED"],
       [matches |-> ~zookeeper_connected,              status |-> "ZK_NO_DATA"],
       [matches |-> tls_enabled # zookeeper_tls,       status |-> "ZK_TLS_MISMATCH"],
       [matches |-> tls_enabled /\ ~certificate,       status |-> "NO_CERT"],
       [matches |-> ~internal_user_credentials,        status |-> "NO_BROKER_CREDS"],
       [matches |-> TRUE,                              status |-> "ACTIVE"] >>

FirstMatchingRule ==
    CHOOSE i \in 1..Len(ReadinessRules) :
        /\ ReadinessRules[i].matches
        /\ \A j \in 1..(i - 1) : ~ReadinessRules[j].matches

\* C1: for every combination of the seven inputs, ready_to_start is the status of the
\* first matching rule of the chain (no peer relation, no ZooKeeper relation, no
\* ZooKeeper data, TLS mismatch, no certificate, no credentials, else ACTIVE), and every
\* readiness value a pass reads is that status; without a peer relation it is
\* NO_PEER_RELATION whatever the other inputs are.
C1_FirstMatchingRuleWins ==
    /\ ready_to_start \in ReadyStatuses
    /\ ready_to_start = ReadinessRules[FirstMatchingRule].status
    /\ ~peer_relation => ready_to_start = "NO_PEER_RELATION"
    /\ \A i \in 1..Len(ReadinessRead) :
          ReadinessRead[i][2] = ReadinessRules[FirstMatchingRule].status

\* C1 witness: a pass read the readiness with every prerequisite but the peer relation
\* satisfied
C1_Witness ==
    /\ ~peer_relation
    /\ zookeeper_relation /\ zookeeper_connected
    /\ tls_enabled /\ zookeeper_tls /\ certificate /\ internal_user_credentials
    /\ ReadinessRead = << <<"ready_to_start", "NO_PEER_RELATION">> >>

\* C2: while exactly one of cluster TLS and ZooKeeper TLS is enabled, ready_to_start is
\* never NO_CERT, NO_BROKER_CREDS or ACTIVE, and with the peer relation, the ZooKeeper
\* relation and the ZooKeeper data present it is ZK_TLS_MISMATCH, whatever the
\* certificate and the credentials are; the same holds of what a pass reads.
C2_MismatchBeforeCertAndCreds ==
    Xor(tls_enabled, zookeeper_tls) =>
        /\ ready_to_start \notin {"NO_CERT", "NO_BROKER_CREDS", "ACTIVE"}
        /\ (peer_relation /\ zookeeper_relation /\ zookeeper_connected)
              => ready_to_start = "ZK_TLS_MISMATCH"
        /\ \A i \in 1..Len(ReadinessRead) :
              /\ ReadinessRead[i][2] \notin {"NO_CERT", "NO_BROKER_CREDS", "ACTIVE"}
              /\ (peer_relation /\ zookeeper_relation /\ zookeeper_connected)
                    => ReadinessRead[i][2] = "ZK_TLS_MISMATCH"

\* C2 witness: cluster TLS on with the certificate and the credentials present, ZooKeeper
\* TLS off, and a pass read ZK_TLS_MISMATCH
C2_Witness ==
    /\ peer_relation /\ zookeeper_relation /\ zookeeper_connected
    /\ tls_enabled /\ ~zookeeper_tls
    /\ certificate /\ internal_user_credentials
    /\ ReadinessRead = << <<"ready_to_start", "ZK_TLS_MISMATCH">> >>

\* C5: security_protocol is SASL_SSL exactly when cluster TLS is enabled and the local
\* certificate is present, SASL_PLAINTEXT otherwise; so in every state, whatever TLS and
\* certificate events led to it, without a certificate no entry of the internal
\* bootstrap_server carries the SASL_SSL port.
C5_TlsOnlyWithCertificate ==
    /\ security_protocol = "SASL_SSL" <=> (tls_enabled /\ certificate)
    /\ security_protocol = "SASL_PLAINTEXT" <=> ~(tls_enabled /\ certificate)
    /\ (peer_relation /\ ~expose_nodeport) =>
          /\ Len(bootstrap_server) = Cardinality(brokers)
          /\ \A i \in 1..Len(bootstrap_server) :
                /\ certificate \/
                      bootstrap_server[i][2] # SecurityProtocolPorts("SASL_SSL")
                /\ bootstrap_server[i][2] =
                      SecurityProtocolPorts(IF tls_enabled /\ certificate
                                            THEN "SASL_SSL" ELSE "SASL_PLAINTEXT")

\* C5 witness: cluster TLS is enabled, the certificate is not there (yet, or any more),
\* and bootstrap_server lists several brokers
C5_Witness ==
    /\ tls_enabled /\ ~certificate
    /\ peer_relation /\ ~expose_nodeport
    /\ Len(bootstrap_server) >= 2
    /\ security_protocol = "SASL_PLAINTEXT"

\* what a pass does to the workload and to the client relations
EffectKinds == {"write", "tls", "workload"}

IsEffect(e) == e[1] \in EffectKinds

\* ready_to_start was read as ACTIVE before position i of the pass
ActiveReadBefore(i) == \E j \in 1..(i - 1) : pass[j] = <<"ready_to_start", "ACTIVE">>

\* C3 as stated: in every handler pass, install included, every write to the workload,
\* every start or restart and every write to client relation data comes after a
\* readiness evaluation of that pass that returned ACTIVE.
C3_Original_ReadinessGatesEveryEffect ==
    \A i \in 1..Len(pass) : IsEffect(pass[i]) => ActiveReadBefore(i)

\* C3 amended: in every handler pass but install, every write to the workload, every
\* start or restart and every write to client relation data comes after a readiness
\* evaluation of that pass that returned ACTIVE; an install pass evaluates no readiness
\* and its one effect is the write of the environment.
C3_ReadinessGatesAllButInstall ==
    /\ \A i \in 1..Len(pass) :
          (IsEffect(pass[i]) /\ pass[1] # <<"enter", "install">>) => ActiveReadBefore(i)
    /\ (pass # <<>> /\ pass[1] = <<"enter", "install">>) =>
          /\ ReadinessRead = <<>>
          /\ \A i \in 1..Len(pass) : IsEffect(pass[i]) => pass[i] = <<"write", "environment">>

\* C3 witness: a pass that wrote TLS files, started the workload and wrote client data
C3_Witness ==
    /\ \E i \in 1..Len(pass) : pass[i] = <<"tls", "set_keystore">>
    /\ \E i \in 1..Len(pass) : pass[i] = <<"workload", "start">>
    /\ \E i \in 1..Len(pass) : pass[i] = <<"write", "client_data">>

\* the handlers C4 names
DeferringHandlers == {"install", "kafka_pebble_ready", "config_changed", "update_status",
                      "restart"}

\* the position where the handler returning early at position i was entered
EnteredAt(i) ==
    CHOOSE j \in 1..i :
        /\ pass[j] = <<"enter", pass[i][2]>>
        /\ \A k \in (j + 1)..i : pass[k] # <<"enter", pass[i][2]>>

DeferredBefore(i) == \E k \in EnteredAt(i)..i : pass[k][1] = "defer"

NoEffectBefore(i) == \A k \in EnteredAt(i)..i : ~IsEffect(pass[k])

EarlyReturns ==
    {i \in 1..Len(pass) : pass[i][1] = "return_early" /\ pass[i][2] \in DeferringHandlers}

\* C4 as stated: whenever install, start / pebble-ready, config-changed, update-status or
\* restart returns early for a missing prerequisite, it has deferred its event and has
\* done nothing to the workload.
C4_Original_EarlyReturnDefers ==
    \A i \in EarlyReturns : DeferredBefore(i) /\ NoEffectBefore(i)

\* C4 amended: a handler that returns early for a missing prerequisite has done nothing
\* to the workload; it has deferred its event, except update-status (which never defers)
\* and start / pebble-ready while the upgrade is not idle.
C4_EarlyReturnDefersOrUpdateStatus ==
    \A i \in EarlyReturns :
        /\ NoEffectBefore(i)
        /\ DeferredBefore(i) <=>
              ~ \/ pass[i][2] = "update_status"
                \/ pass[i][2] = "kafka_pebble_ready" /\ ~upgrade_idle

\* C4 witness: config-changed ran with the readiness ACTIVE and the service running
\* but the configuration files not written yet, deferred and returned
C4_Witness ==
    /\ server_properties = "none" /\ workload_active /\ upgrade_idle
    /\ ready_to_start = "ACTIVE"
    /\ Len(pass) = 4
    /\ pass[3] = <<"defer", "config_changed">>
    /\ pass[4] = <<"return_early", "config_changed">>

\* ---- K8sManager ----

MechanismIndex(protocol) == IF protocol = "SASL_PLAINTEXT" THEN 0 ELSE 1

BootstrapServices == {n \in DOMAIN services : n = BootstrapServiceName(unit_id)}

\* The mechanism a Service in the cluster was last applied with.
AppliedWith(svc, protocol) == svc.ports[1].port[1] = SecurityProtocolPorts(protocol)

\* The ordinals, of the first two thousand, whose bootstrap port the
\* platform accepts under every mechanism.
OrdinalsInRange ==
    {o \in 0..2000 : \A m \in AuthMechanisms : BootstrapNodePort(o, m) \in NodePortRange}

\* C6 as stated: the nodePort of the bootstrap service applied for an
\* (ordinal, mechanism) pair is the port of no other pair, and lies in the
\* platform's NodePort range.
C6_Original_InjectiveOverOrdinalAndMechanism ==
    /\ \A n \in BootstrapServices, m1 \in AuthMechanisms :
           AppliedWith(services[n], m1) =>
               \A o2 \in Ordinals, m2 \in AuthMechanisms :
                   <<unit_id, m1>> # <<o2, m2>>
                       => services[n].ports[1].nodePort # BootstrapNodePort(o2, m2)
    /\ \A n \in BootstrapServices : services[n].ports[1].nodePort \in NodePortRange

\* C6 amended: the nodePort requested for the bootstrap service is
\* injective in the unit ordinal and does not depend on the mechanism (two
\* pairs get the same port exactly when their ordinals are equal); it lies
\* in the platform's range 30000..32767 for the ordinals 0..1767, and no
\* further; the bootstrap Service in the cluster holds a port of the range.
C6_InjectiveOverOrdinalsOnly ==
    /\ \A o1 \in Ordinals, o2 \in Ordinals, m1 \in AuthMechanisms, m2 \in AuthMechanisms :
           (BootstrapNodePort(o1, m1) = BootstrapNodePort(o2, m2)) <=> (o1 = o2)
    /\ OrdinalsInRange = 0..1767
    /\ \A n \in BootstrapServices : services[n].ports[1].nodePort \in NodePortRange

\* The bootstrap service of a unit was applied again under the other
\* mechanism and kept its port.
C6_Witness ==
    /\ k8s_call.op = "create_bootstrap_service" /\ k8s_call.raised = FALSE /\ k8s_call.existed = TRUE
    /\ \E n \in BootstrapServices :
           /\ AppliedWith(services[n], "SASL_SSL")
           /\ services[n].ports[1].nodePort = BootstrapNodePort(unit_id, "SASL_PLAINTEXT")

\* C7 as stated: the port is 30000 + 1000 + ordinal * 10 + the index of
\* the mechanism; ordinal 1 with mechanism index 1 gets 31011.
C7_Original_PortFormulaWithMechanismOffset ==
    \A n \in BootstrapServices, m \in AuthMechanisms :
        AppliedWith(services[n], m) =>
            /\ services[n].ports[1].nodePort
                   = 30000 + 1000 + unit_id * 10 + MechanismIndex(m)
            /\ (unit_id = 1 /\ MechanismIndex(m) = 1) => services[n].ports[1].nodePort = 31011

\* C7 amended: the port is 31000 + ordinal whatever the mechanism (the
\* stride is 1 and there is no mechanism offset); ordinal 1 with mechanism
\* index 1 gets 31001.
C7_PortIsBasePlusOrdinal ==
    \A n \in BootstrapServices, m \in AuthMechanisms :
        AppliedWith(services[n], m) =>
            /\ services[n].ports[1].nodePort = 31000 + unit_id
            /\ (unit_id = 1 /\ MechanismIndex(m) = 1) => services[n].ports[1].nodePort = 31001

\* Unit 1 holds a bootstrap service applied with the mechanism of index 1.
C7_Witness ==
    /\ unit_id = 1
    /\ \E n \in BootstrapServices :
           AppliedWith(services[n], "SASL_SSL") /\ services[n].ports[1].nodePort = 31001

ListenerServices == {n \in DOMAIN services : n # BootstrapServiceName(unit_id)}

\* C8 as stated, for the ports actually handed out: the port node_port
\* returns for a mechanism is the one it returned before.
C8_Original_PortNeverChanges ==
    [][(/\ advertised # <<>>
        /\ advertised' # <<>>
        /\ advertised[1].protocol = advertised'[1].protocol
        /\ advertised[1].port > 0
        /\ advertised'[1].port > 0)
           => advertised'[1].port = advertised[1].port]_vars

\* C8 amended: only the bootstrap port is computed (from the ordinal);
\* node_port returns what the manager read from the cluster, the nodePort
\* the platform gave the Service or -1 when it could not read one; a
\* Service keeps its nodePort for as long as it exists, whatever calls
\* succeed or fail and whenever the manager is rebuilt.
C8_PortReadFromClusterStableWhileServiceExists ==
    /\ [](\A n \in BootstrapServices :
              services[n].ports[1].nodePort = BootstrapNodePort(unit_id, mgr_protocol))
    /\ [](k8s_call.op = "node_port" =>
              /\ mgr_service # <<>>
              /\ advertised[1].port = IF mgr_service[1] = <<>> THEN -1
                                      ELSE mgr_service[1][1].ports[1].nodePort
              /\ advertised[1].port \in {-1} \cup {31000 + unit_id + i : i \in 0..(MaxAllocPorts - 1)})
    /\ [][\A n \in DOMAIN services \cap DOMAIN services' :
              services'[n].ports[1].nodePort = services[n].ports[1].nodePort]_vars

\* A create_nodeport_service failed after the port was handed out, and the
\* Service still holds that port.
C8_Witness ==
    /\ k8s_call.op = "create_nodeport_service" /\ k8s_call.raised = TRUE /\ k8s_call.existed = TRUE
    /\ advertised # <<>>
    /\ advertised[1].protocol = mgr_protocol
    /\ services[ServiceName(unit_id, mgr_protocol)].ports[1].nodePort = advertised[1].port

FullySpecified(svc) ==
    \E m \in AuthMechanisms, uid \in 1..pods_created :
        \/ svc = BootstrapService(unit_id, m, uid)
        \/ /\ svc.ports[1].nodePort # 0
           /\ svc = [NodeportService(unit_id, m, uid)
                         EXCEPT !.ports[1].nodePort = svc.ports[1].nodePort]

\* A second call of the same create, with every outcome of the API: the
\* cluster's Services are those the first call left, and the call raises
\* only if the API does.
SecondCallIsNoOp(k1, create(_, _, _, _, _)) ==
    \A get_outcome \in ApiOutcomes, apply_outcome \in ApiOutcomes,
       alloc \in AllocChoices(k1.services, unit_id) :
        LET k2 == create(k1, unit_id, get_outcome, apply_outcome, alloc)
        IN  /\ k2.services = k1.services
            /\ apply_outcome = "ok" => ~k2.raised

\* C9: in every state a call can start in, a create_nodeport_service or create_bootstrap_service
\* that succeeds, called again with the same unit and mechanism, leaves the
\* Services as they were and does not raise; a call that raises changes no
\* Service; every Service of the cluster is a complete object stored under
\* its own name.
C9_ApplyIdempotentFullUpsert ==
    /\ k8s_call = NoCall =>
       \A get_outcome \in ApiOutcomes, apply_outcome \in ApiOutcomes,
          alloc \in AllocChoices(services, unit_id) :
           LET n1 == create_nodeport_service(CallStart, unit_id, get_outcome, apply_outcome,
                                             alloc)
               b1 == create_bootstrap_service(CallStart, unit_id, get_outcome, apply_outcome,
                                              alloc)
           IN  /\ IF n1.raised THEN n1.services = services
                  ELSE SecondCallIsNoOp(n1, create_nodeport_service)
               /\ IF b1.raised THEN b1.services = services
                  ELSE SecondCallIsNoOp(b1, create_bootstrap_service)
    /\ \A n \in DOMAIN services : services[n].name = n /\ FullySpecified(services[n])

\* create_nodeport_service returned without error on a Service that was
\* there already, applied by the manager of the same pod.
C9_Witness ==
    /\ k8s_call.op = "create_nodeport_service" /\ k8s_call.raised = FALSE /\ k8s_call.existed = TRUE
    /\ services[ServiceName(unit_id, mgr_protocol)].ownerReferences[1].uid = pod_uid
    /\ BootstrapServices # {}

GarbageCollected == \A n \in DOMAIN services : ~Dangling(services[n])

\* C10: every Service of the cluster has exactly one ownerReference, a Pod
\* of the unit's pod name and of the uid of a pod the unit has had, and
\* selects the pod of that name; the Service a call has just applied is
\* owned by the pod that is there; when the pod is gone and the garbage
\* collector has nothing left to delete, no Service of the unit remains.
C10_ServicesOwnedByPodAndCollected ==
    /\ \A n \in DOMAIN services :
           /\ Len(services[n].ownerReferences) = 1
           /\ services[n].ownerReferences[1].kind = "Pod"
           /\ services[n].ownerReferences[1].name = PodName(unit_id)
           /\ services[n].ownerReferences[1].uid \in 1..pods_created
           /\ services[n].selector = ("statefulset.kubernetes.io/pod-name" :> PodName(unit_id))
    /\ (k8s_call.op = "create_bootstrap_service" /\ ~k8s_call.raised)
           => services[BootstrapServiceName(unit_id)].ownerReferences[1].uid = pod_uid
    /\ (k8s_call.op = "create_nodeport_service" /\ ~k8s_call.raised)
           => services[ServiceName(unit_id, mgr_protocol)].ownerReferences[1].uid = pod_uid
    /\ (pod_uid = 0 /\ GarbageCollected) => DOMAIN services = {}

\* The port of a Service was handed out, then the pod went and the garbage
\* collector deleted every Service of the unit.
C10_Witness ==
    /\ advertised # <<>>
    /\ advertised[1].port > 0
    /\ pod_uid = 0
    /\ DOMAIN services = {}

\* The create calls a manager can make now, with every answer of the API to
\* the pod lookup and this answer to the apply.
CreateCalls(apply_outcome) ==
    UNION {{create_bootstrap_service(CallStart, unit_id, get_outcome, apply_outcome, alloc),
            create_nodeport_service(CallStart, unit_id, get_outcome, apply_outcome, alloc)} :
           <<get_outcome, alloc>> \in PodOutcomes \X AllocChoices(services, unit_id)}

\* The lookups a manager can make now, with every answer of the API.
LookupCalls ==
    UNION {{node(CallStart, get_outcome, node_outcome),
            node_ip(CallStart, get_outcome, node_outcome),
            node_port(CallStart, unit_id, service_outcome),
            external_address(CallStart, unit_id, get_outcome, node_outcome, service_outcome)} :
           <<get_outcome, node_outcome, service_outcome>>
               \in PodOutcomes \X NodeOutcomes \X ServiceOutcomes}

\* C11 as stated: an apply the API denies does not make
\* create_bootstrap_service / create_nodeport_service raise; an apply
\* refused for a port another Service holds does.
C11_Original_ConflictsNonFatal ==
    k8s_call = NoCall =>
        /\ \A k \in CreateCalls("forbidden") :
               (k.failed = "apply" /\ k.answer = "forbidden") => ~k.raised
        /\ \A k \in CreateCalls("ok") :
               (k.failed = "apply" /\ k.answer = "port_allocated") => k.raised

\* C12 as stated: a failed pod, node or Service lookup and a failed apply
\* (other than denied or port allocated) all raise.
C12_Original_EveryFailureRaises ==
    k8s_call = NoCall =>
        \A k \in CreateCalls("error") \cup LookupCalls : k.failed # "none" => k.raised

\* What a call k has come to: it raised exactly if a pod or node lookup or
\* the apply failed, or the pod had no nodeName or the node no status; if
\* it raised it changed no Service; if the Service lookup failed it did not
\* raise, cached None and returned -1.
RaisesUnlessServiceLookup(k) ==
    /\ k.raised <=> k.failed \in {"pod", "pod_spec", "node", "node_status", "apply"}
    /\ k.raised => k.services = services
    /\ (k.failed = "service") => ~k.raised /\ k.value = -1 /\ k.service = << <<>> >>

\* C12 amended: a failed pod or node lookup and a failed apply (other than
\* denied or port allocated) raise, and so does a pod without nodeName or
\* a node without status; a call that raises changes no Service; a failed
\* Service lookup does not raise: the manager caches None, and node_port
\* returns -1 (external_address carries it).
C12_FailuresRaiseButServiceLookup ==
    k8s_call = NoCall =>
        /\ \A get_outcome \in PodOutcomes :
               /\ \A alloc \in AllocChoices(services, unit_id) :
                      /\ RaisesUnlessServiceLookup(
                             create_bootstrap_service(CallStart, unit_id, get_outcome, "error",
                                                      alloc))
                      /\ RaisesUnlessServiceLookup(
                             create_nodeport_service(CallStart, unit_id, get_outcome, "error",
                                                     alloc))
                      /\ create_nodeport_service(CallStart, unit_id, get_outcome, "error",
                                                 alloc).raised
                      /\ create_bootstrap_service(CallStart, unit_id, get_outcome, "error",
                                                  alloc).raised
               /\ \A node_outcome \in NodeOutcomes :
                      /\ RaisesUnlessServiceLookup(node(CallStart, get_outcome, node_outcome))
                      /\ RaisesUnlessServiceLookup(node_ip(CallStart, get_outcome, node_outcome))
                      /\ \A service_outcome \in ServiceOutcomes :
                             RaisesUnlessServiceLookup(
                                 external_address(CallStart, unit_id, get_outcome, node_outcome,
                                                  service_outcome))
        /\ \A service_outcome \in ServiceOutcomes :
               RaisesUnlessServiceLookup(node_port(CallStart, unit_id, service_outcome))

\* node_port returned -1 although the Service was there when it was called.
C12_Witness ==
    /\ k8s_call.op = "node_port" /\ ~k8s_call.raised /\ k8s_call.existed
    /\ advertised[1].port = -1
    /\ ServiceName(unit_id, mgr_protocol) \in DOMAIN services

\* ---- expose-nodeport ----

ProvisioningPass == tls_pass # <<>> /\ tls_pass[1] = <<"call", "provision">>

StepsRun == [i \in 1..(Len(tls_pass) - 1) |-> tls_pass[i + 1][1]]

IsPrefix(s, order) == Len(s) <= Len(order) /\ \A i \in 1..Len(s) : s[i] = order[i]

(* Each step but the first follows one that ended as ends says.            *)
PredecessorsEnded(ends) == \A i \in 3..Len(tls_pass) : tls_pass[i - 1][2] \in ends

(* C15 as stated: a provisioning pass writes the key, then the             *)
(* certificate, then the CA, then builds the truststore, then the          *)
(* keystore, and each step runs only after the one before it completed.    *)
C15_Original_KeyCertificateCaOrder ==
    ProvisioningPass =>
        /\ IsPrefix(StepsRun, <<"set_server_key", "set_certificate", "set_ca",
                                "set_truststore", "set_keystore">>)
        /\ PredecessorsEnded({"done", "already exists"})

(* C15: a provisioning pass runs set_server_key, set_ca, set_certificate,  *)
(* set_truststore, set_keystore in this order, the CA before the           *)
(* certificate; each step starts only after the one before it returned     *)
(* without raising, be it that it wrote its file, or found the alias       *)
(* there, or had no datum to write and skipped.                            *)
C15_KeyCaCertificateOrderSkippingAllowed ==
    ProvisioningPass =>
        /\ IsPrefix(StepsRun, <<"set_server_key", "set_ca", "set_certificate",
                                "set_truststore", "set_keystore">>)
        /\ PredecessorsEnded({"done", "already exists", "skipped"})

(* A pass went through all five steps, each writing its artifact.          *)
C15_Witness ==
    /\ ProvisioningPass
    /\ Len(tls_pass) = 6
    /\ \A i \in 2..6 : tls_pass[i][2] = "done"
    /\ tls_pass[3][1] = "set_ca"

NoFault == [cmd |-> "none", kind |-> "none"]

(* The unit holds all the TLS material, the stores as the broker needs them. *)
Provisioned(c) ==
    /\ {"server.key", "ca.pem", "server.pem", "truststore.jks", "keystore.p12"} \subseteq c.files
    /\ "ca" \in c.aliases
    /\ \A s \in Stores : c.perms[s].owner /\ c.perms[s].mode

Idle == TlsStart("retry")

(* C16: a step run again finds its work done and returns: keytool answers  *)
(* "already exists" to set_truststore and import_cert when the alias is    *)
(* in the truststore, "does not exist" to remove_cert when it is not, and  *)
(* neither call raises; the whole sequence run on a provisioned unit       *)
(* returns without error and leaves the unit provisioned.                  *)
C16_StepsIdempotentUnderRetry ==
    tls_pass = <<>> =>
        /\ ("ca" \in aliases /\ "ca.pem" \in conf_files)
               => LET r == set_truststore(Idle, NoFault)
                  IN  ~r.raised /\ r.trace[2] = <<"set_truststore", "already exists">>
        /\ ("client" \in aliases /\ "client.pem" \in conf_files)
               => LET r == import_cert(Idle, "client", "client.pem", NoFault)
                  IN  ~r.raised /\ r.trace[2] = <<"import_cert", "already exists">>
        /\ "client" \notin aliases
               => LET r == remove_cert(Idle, "client", NoFault)
                  IN  ~r.raised /\ r.trace[2] = <<"remove_cert", "does not exist">>
        /\ Provisioned(Idle)
               => LET r == provision(Idle, NoFault)
                  IN  ~r.raised /\ ~r.halted /\ Provisioned(r)

(* The sequence was run on a unit whose truststore held the CA already,    *)
(* and went on to the keystore.                                            *)
C16_Witness ==
    /\ ProvisioningPass
    /\ Len(tls_pass) = 6
    /\ tls_pass[5] = <<"set_truststore", "already exists">>
    /\ tls_pass[6] = <<"set_keystore", "done">>
    /\ Provisioned([files |-> conf_files, aliases |-> aliases, perms |-> perms])

(* How a tool fails for a reason of its own: with no output, or with one   *)
(* that holds neither phrase.                                              *)
GenuineFailures == {"none", "other"}

LeftAsItWas(r) == r.files = conf_files /\ r.aliases = aliases /\ r.perms = perms

Artifact(step) ==
    CASE step = "set_server_key" -> "server.key"
      [] step = "set_ca" -> "ca.pem"
      [] step = "set_certificate" -> "server.pem"
      [] step = "set_truststore" -> "truststore.jks"
      [] OTHER -> "keystore.p12"

(* The pass ends at the step that raised, and what was there before, and   *)
(* what the steps before it wrote, is still there.                         *)
AbortsKeepingArtifacts(r) ==
    r.raised =>
        /\ r.trace[Len(r.trace)][2] = "raised"
        /\ \A i \in 2..(Len(r.trace) - 1) :
               /\ r.trace[i][2] # "raised"
               /\ r.trace[i][2] = "done" => Artifact(r.trace[i][1]) \in r.files
        /\ conf_files \subseteq r.files
        /\ aliases \subseteq r.aliases
        /\ \A s \in Stores : (perms[s].owner => r.perms[s].owner)
                               /\ (perms[s].mode => r.perms[s].mode)

(* C17: a tool failing without the tolerated phrase in its output, or      *)
(* without output, makes set_truststore, set_keystore, import_cert,        *)
(* remove_cert and remove_stores raise; the call that fails at its first   *)
(* command leaves files, aliases and permissions as they were, the one     *)
(* failing at chown or chmod leaves the store it wrote, and a provisioning *)
(* pass ends at the step that raised with the earlier artifacts in place.  *)
C17_GenuineFailureIsRaised ==
    tls_pass = <<>> =>
        \A kind \in GenuineFailures :
            /\ LET r == set_truststore(Idle, [cmd |-> "import", kind |-> kind])
               IN  r.raised /\ LeftAsItWas(r)
            /\ LET r == set_keystore(Idle, [cmd |-> "pkcs12", kind |-> kind])
               IN  r.raised /\ LeftAsItWas(r)
            /\ LET r == import_cert(Idle, "client", "client.pem", [cmd |-> "import", kind |-> kind])
               IN  r.raised /\ LeftAsItWas(r)
            /\ LET r == remove_cert(Idle, "client", [cmd |-> "delete", kind |-> kind])
               IN  r.raised /\ LeftAsItWas(r)
            /\ LET r == remove_stores(Idle, [cmd |-> "rm-stores", kind |-> kind])
               IN  r.raised /\ LeftAsItWas(r)
            /\ \A cmd \in {"chown-truststore", "chmod-truststore"} :
                   ("ca" \notin aliases /\ "ca.pem" \in conf_files)
                      => LET r == set_truststore(Idle, [cmd |-> cmd, kind |-> kind])
                         IN  r.raised /\ "truststore.jks" \in r.files /\ "ca" \in r.aliases
            /\ \A cmd \in {"chown-keystore", "chmod-keystore"} :
                   ({"server.pem", "server.key"} \subseteq conf_files)
                      => LET r == set_keystore(Idle, [cmd |-> cmd, kind |-> kind])
                         IN  r.raised /\ "keystore.p12" \in r.files
            /\ \A cmd \in Commands :
                   LET r == provision(Idle, [cmd |-> cmd, kind |-> kind])
                   IN  /\ AbortsKeepingArtifacts(r)
                       /\ (tls_enabled /\ certificate /\ ca /\ cmd = "import") => r.raised

(* A pass wrote key, CA and certificate, and ended where keytool failed.   *)
C17_Witness ==
    /\ ProvisioningPass
    /\ Len(tls_pass) = 5
    /\ tls_pass[4] = <<"set_certificate", "done">>
    /\ tls_pass[5] = <<"set_truststore", "raised">>
    /\ {"server.key", "ca.pem", "server.pem"} \subseteq conf_files
    /\ "truststore.jks" \notin conf_files

AsBrokerNeeds(store) == perms[store].owner /\ perms[store].mode

(* C18 as stated: whenever set_truststore or set_keystore has returned     *)
(* without error, in a pass or alone, in a first run or in the run after   *)
(* a crash, its store has the broker's owner and mode 770.                 *)
C18_Original_StoreOwnedAfterEveryReturn ==
    \A i \in 2..Len(tls_pass) :
        /\ (tls_pass[i][1] = "set_truststore" /\ tls_pass[i][2] \in {"done", "already exists"})
               => AsBrokerNeeds("truststore.jks")
        /\ (tls_pass[i][1] = "set_keystore" /\ tls_pass[i][2] = "done")
               => AsBrokerNeeds("keystore.p12")

(* C19: remove_stores, when its command succeeds, leaves none of the TLS   *)
(* files in the configuration directory, whatever was there; and the       *)
(* provisioning sequence run next on a unit that has its key, certificate  *)
(* and CA writes all five artifacts anew, no step meeting "already         *)
(* exists", and ends provisioned.                                          *)
C19_RemoveStoresWipesAll ==
    tls_pass = <<>> =>
        LET r == remove_stores(Idle, NoFault)
        IN  /\ ~r.raised
            /\ r.files \cap TlsFiles = {}
            /\ r.aliases = {}
            /\ (tls_enabled /\ certificate /\ ca /\ private_key)
                   => LET q == provision(r, NoFault)
                      IN  /\ Provisioned(q)
                          /\ Len(q.trace) = 7
                          /\ \A i \in 2..7 : q.trace[i][2] = "done"

(* remove_stores has run, and nothing is left.                             *)
C19_Witness ==
    /\ tls_pass = << <<"call", "remove_stores">>, <<"remove_stores", "done">> >>
    /\ conf_files = {}
    /\ aliases = {}
    /\ private_key /\ certificate /\ ca

(***************************************************************************)
(* Subject alternative names                                               *)
(***************************************************************************)

SortedNoDuplicates(list) == \A i, j \in 1..Len(list) : i < j => list[i] < list[j]

(* C20 as stated: on vm and on k8s, whatever the inputs and their order,   *)
(* build_sans returns sans_ip and sans_dns sorted and without duplicates.  *)
C20_Original_SansSortedAndDeduplicated ==
    sans # <<>> =>
        /\ ~sans[1].raised
        /\ SortedNoDuplicates(sans[1].sans_ip)
        /\ SortedNoDuplicates(sans[1].sans_dns)

Elements(list) == {list[i] : i \in 1..Len(list)}

(* The extra names the option declares, "{unit}" replaced.                 *)
DeclaredExtraSans ==
    {IF e = UnitTemplate THEN sans_input.templated ELSE e :
        e \in Elements(sans_input.certificate_extra_sans)}

(* C21 as stated: build_sans returns the bind address and the node address *)
(* as IP SANs, on vm the host address, and as DNS SANs the unit's name,    *)
(* the fully-qualified domain name and every entry of                      *)
(* certificate_extra_sans with "{unit}" replaced, none for an empty        *)
(* option.                                                                 *)
C21_Original_SansContent ==
    sans # <<>> =>
        /\ ~sans[1].raised
        /\ Elements(sans[1].sans_ip) =
               (IF substrate = "vm" THEN {sans_input.host}
                ELSE {sans_input.bind_address, sans_input.node_ip})
        /\ {sans_input.fqdn} \cup DeclaredExtraSans \subseteq Elements(sans[1].sans_dns)
        /\ substrate = "vm" =>
               Elements(sans[1].sans_dns) =
                   {sans_input.unit_name, sans_input.fqdn} \cup DeclaredExtraSans

(***************************************************************************)
(* Derived values of the client relations                                  *)
(***************************************************************************)

(* The clients that ask for admin and have their password.                 *)
AdminClientsWithPassword ==
    {id \in DOMAIN client_relations :
        /\ client_relations[id].app
        /\ ContainsAdmin(client_relations[id].roles)
        /\ client_relations[id].password}

(* C22: super_users lists, in the order of the formatted strings and each  *)
(* once, User:<name> for every internal account and User:relation-<id> for *)
(* exactly the client relations whose extra-user-roles contain "admin" and *)
(* that have a password in the cluster data; a client without "admin" in   *)
(* its roles or without password is not listed.                            *)
C22_SuperUsersAreInternalAndAdminClients ==
    LET value == super_users(client_relations)
    IN  /\ Elements(value) =
               {InternalUserEntry(name) : name \in InternalUsers}
                   \cup {RelationUserEntry(id) : id \in AdminClientsWithPassword}
        /\ \A i, j \in 1..Len(value) : i < j => EntryRank(value[i]) < EntryRank(value[j])
        /\ \A id \in DOMAIN client_relations :
               (~ContainsAdmin(client_relations[id].roles) \/ ~client_relations[id].password)
                   => RelationUserEntry(id) \notin Elements(value)
        /\ super_users_read # <<>> =>
               \A name \in InternalUsers :
                   InternalUserEntry(name) \in Elements(super_users_read[1])

(* super_users was read with one admin client listed, while another client *)
(* asks for admin and has no password yet.                                 *)
C22_Witness ==
    /\ super_users_read = <<super_users(client_relations)>>
    /\ Len(super_users_read[1]) = 3
    /\ \E id \in DOMAIN client_relations :
           ContainsAdmin(client_relations[id].roles) /\ ~client_relations[id].password

(* The entry of the broker with ordinal u, as the configuration asks.      *)
BootstrapEntry(u) ==
    IF expose_nodeport THEN BootstrapServerExternal(u)
    ELSE <<InternalAddress(u), SecurityProtocolPorts(security_protocol)>>

(* C23: bootstrap_server is empty without peer relation; with it, it holds *)
(* one entry for every broker of ClusterState.brokers and no other, in     *)
(* ascending order: the broker's internal address with the port of the     *)
(* active security protocol, or its external address when expose_nodeport  *)
(* is set.                                                                 *)
C23_BootstrapServerListsEveryBroker ==
    /\ ~peer_relation => bootstrap_server = <<>>
    /\ peer_relation =>
          /\ Len(bootstrap_server) = Cardinality(brokers)
          /\ Elements(bootstrap_server) = {BootstrapEntry(u) : u \in brokers}
          /\ \A u, v \in brokers :
                 u < v => \E i, j \in 1..Len(bootstrap_server) :
                              /\ i < j
                              /\ bootstrap_server[i] = BootstrapEntry(u)
                              /\ bootstrap_server[j] = BootstrapEntry(v)
          /\ ~expose_nodeport =>
                 \A i \in 1..Len(bootstrap_server) :
                     bootstrap_server[i][2] = SecurityProtocolPorts(security_protocol)

(* Three brokers are listed by their external addresses.                   *)
C23_Witness ==
    /\ peer_relation
    /\ expose_nodeport
    /\ Len(bootstrap_server) = 3
    /\ bootstrap_server[1] = BootstrapServerExternal(LocalUnit)

C25_ClientDataWrittenByHealthyLeader ==
    /\ client_data_written # {} =>
          /\ unit_is_leader
          /\ ready_to_start = "ACTIVE"
          /\ workload_active
          /\ \E i \in 1..Len(pass) : pass[i] = <<"write", "client_data">>
    /\ \A id \in client_data_written :
          id \in DOMAIN client_relations /\ client_relations[id].password
    /\ (\E i \in 1..Len(pass) : pass[i] = <<"write", "client_data">>) => unit_is_leader

(* The leader wrote to the client that has its password and not to the     *)
(* one that has none.                                                      *)
C25_Witness ==
    /\ unit_is_leader
    /\ Cardinality(client_data_written) = 1
    /\ \E id \in DOMAIN client_relations :
           client_relations[id].app /\ ~client_relations[id].password

(***************************************************************************)
(* Failures and passes                                                     *)
(***************************************************************************)

(* The exception of a TLS step left the pebble-ready handler, which has no *)
(* handler for it: the pass ended there.                                   *)
ExceptionLeftTheHandler ==
    /\ ProvisioningPass
    /\ tls_pass[Len(tls_pass)][2] = "raised"

(* C26 as stated: whatever step of a pass fails, no exception leaves the   *)
(* handler.                                                                *)
C26_Original_NoExceptionLeavesTheHandler == ~ExceptionLeftTheHandler

Handlers ==
    {"install", "kafka_pebble_ready", "config_changed", "update_status", "secret_changed",
     "storage_attached", "storage_detaching", "restart"}

ReturnKinds == {"return", "return_early", "return_not_connected"}

HandlerBegins(i) == pass[i][1] = "enter" /\ pass[i][2] \in Handlers

(* Where the handler that begins at i ends.                                *)
HandlerEnds(i) ==
    LET ends == {j \in (i + 1)..Len(pass) :
                    pass[j][1] \in ReturnKinds /\ pass[j][2] = pass[i][2]}
    IN  IF ends = {} THEN 0 ELSE CHOOSE j \in ends : \A k \in ends : j <= k

(* C27 as stated: no handler begins while another one has begun and not    *)
(* ended, the handlers of emitted events included.                         *)
C27_Original_NoHandlerInsideAnother ==
    \A i, k \in 1..Len(pass) :
        (HandlerBegins(i) /\ HandlerBegins(k) /\ i < k) => HandlerEnds(i) < k

(* C27: the handler of a trigger delivered to the unit begins only when    *)
(* the pass before it is over, and its pass ends with its return.  The     *)
(* handler of an event that a handler emits runs inside the emitting       *)
(* handler, at the emit, and ends before the emitting handler goes on      *)
(* (storage-attached calls the config-changed handler the same way):       *)
(* handlers are nested, never interleaved.                                 *)
C27_TriggersSerialEmittedHandlersNested ==
    /\ pass # <<>> =>
          /\ pass[1][1] = "enter"
          /\ pass[Len(pass)][1] \in ReturnKinds
          /\ pass[Len(pass)][2] = pass[1][2]
    /\ \A i \in 1..Len(pass) :
          HandlerBegins(i) =>
              /\ HandlerEnds(i) > i
              /\ i > 1 =>
                    \/ pass[i - 1] = <<"emit", pass[i][2]>>
                    \/ pass[1][2] = "storage_attached" /\ pass[i][2] = "config_changed"
              /\ \A k \in (i + 1)..(HandlerEnds(i) - 1) :
                    HandlerBegins(k) => (HandlerEnds(k) > k /\ HandlerEnds(k) < HandlerEnds(i))

(* pebble-ready emitted update-status, whose handler emitted               *)
(* config-changed and set the status after its handler had returned.       *)
C27_Witness ==
    /\ pass # <<>>
    /\ pass[1] = <<"enter", "kafka_pebble_ready">>
    /\ \E i, k \in 1..Len(pass) :
           /\ i < k
           /\ pass[i] = <<"enter", "update_status">>
           /\ pass[k] = <<"enter", "config_changed">>
           /\ k < HandlerEnds(i)
    /\ unit_status = "ACTIVE"

(***************************************************************************)
(* Restart requests                                                        *)
(***************************************************************************)

(* config-changed gets past its gates on the unit as it is.                *)
PassesItsGates ==
    /\ upgrade_idle
    /\ ready_to_start = "ACTIVE"
    /\ workload_active
    /\ server_properties # "none"
    /\ zk_jaas # "none"

Position(trace, entry) ==
    LET at == {i \in 1..Len(trace) : trace[i] = entry}
    IN  IF at = {} THEN 0 ELSE CHOOSE i \in at : \A j \in at : i <= j

Differs(file) == file = "stale"

(* What the claim says of one config-changed pass r, but for the files     *)
(* that are written when nothing differs.                                  *)
SignalsRestartWhenNeeded(r) ==
    LET lock == Position(r.trace, <<"emit", "acquire_lock">>)
        props == Position(r.trace, <<"write", "server_properties">>)
        jaas == Position(r.trace, <<"write", "zk_jaas">>)
    IN  /\ lock > 0 <=> (Differs(server_properties) \/ Differs(zk_jaas))
        /\ props > 0 <=> Differs(server_properties)
        /\ jaas > 0 <=> Differs(zk_jaas)
        /\ props > 0 => props < lock
        /\ jaas > 0 => jaas < lock
        /\ r.props = "current" /\ r.jaas = "current"
        /\ \A i \in 1..Len(r.trace) : r.trace[i][1] # "workload"
        /\ r.active = workload_active

(* C28 as stated: the lock is requested exactly when server properties or  *)
(* JAAS config differ, after the changed file was rewritten; when nothing  *)
(* differs no file is rewritten; the handler never restarts the workload.  *)
C28_Original_NoFileRewrittenWhenNothingDiffers ==
    (pass = <<>> /\ PassesItsGates) =>
        \A leader \in BOOLEAN, client \in ClientStates :
            LET r == OnConfigChanged(PassStart(TRUE, leader, client), "config_changed")
            IN  /\ SignalsRestartWhenNeeded(r)
                /\ (~Differs(server_properties) /\ ~Differs(zk_jaas)) =>
                       \A i \in 1..Len(r.trace) : r.trace[i][1] # "write"

(* C28: in a config-changed pass that gets past its gates the lock is      *)
(* requested exactly when server properties or JAAS config differ, each    *)
(* changed file being rewritten before; when nothing differs neither of    *)
(* the two is rewritten and no lock is requested; the environment and the  *)
(* client properties are written in every such pass, changed or not; the   *)
(* handler never restarts the workload.                                    *)
C28_RestartSignalledWhenNeeded ==
    (pass = <<>> /\ PassesItsGates) =>
        \A leader \in BOOLEAN, client \in ClientStates :
            LET r == OnConfigChanged(PassStart(TRUE, leader, client), "config_changed")
            IN  /\ SignalsRestartWhenNeeded(r)
                /\ Position(r.trace, <<"write", "environment">>) > 0
                /\ Position(r.trace, <<"write", "client_properties">>) > 0

(* A config-changed pass rewrote the server properties, then asked for the *)
(* lock, and the service was left running.                                 *)
C28_Witness ==
    /\ pass # <<>>
    /\ pass[1] = <<"enter", "config_changed">>
    /\ Position(pass, <<"write", "server_properties">>) > 0
    /\ Position(pass, <<"write", "zk_jaas">>) = 0
    /\ Position(pass, <<"emit", "acquire_lock">>)
           > Position(pass, <<"write", "server_properties">>)
    /\ workload_active

(* C29 as stated: whenever the manager is between calls, a read of         *)
(* node_port that the API answers returns the nodePort of the Service      *)
(* that exists under service_name for the manager's current security       *)
(* protocol, and -1 exactly when there is no such Service.                 *)
C29_Original_NodePortReflectsCurrentService ==
    k8s_call = NoCall =>
        LET k == node_port(CallStart, unit_id, "ok")
            name == ServiceName(unit_id, mgr_protocol)
        IN  k.value = IF name \in DOMAIN services
                      THEN services[name].ports[1].nodePort
                      ELSE -1

(* The call just run held a set_truststore that returned without error.    *)
TruststoreStepReturned ==
    \E i \in 2..Len(tls_pass) :
        tls_pass[i][1] = "set_truststore" /\ tls_pass[i][2] \in {"done", "already exists"}

CaWrittenInThePass ==
    \E i \in 2..Len(tls_pass) : tls_pass[i] = <<"set_ca", "done">>

(* C30 as stated: after a pass in which set_ca wrote ca.pem and            *)
(* set_truststore returned without error, the alias ca of the truststore   *)
(* holds the CA of the unit's relation data, the one ca.pem holds, also    *)
(* when the CA was replaced after the truststore was built.                *)
C30_Original_TruststoreHoldsCurrentCa ==
    (ProvisioningPass /\ CaWrittenInThePass /\ TruststoreStepReturned) =>
        /\ ca_versions.pem = ca_versions.relation
        /\ ca_versions.truststore = ca_versions.relation

(* The pass just run is one of _on_update_status that went through to its  *)
(* last statement, which sets the status.                                  *)
UpdateStatusPassSetItsStatus ==
    /\ pass # <<>>
    /\ pass[1] = <<"enter", "update_status">>
    /\ pass[Len(pass)] = <<"return", "update_status">>

(* C31 as stated: when _on_update_status has ended with the status it set, *)
(* ACTIVE, the unit is ready to start and the workload runs: whatever the  *)
(* emitted config_changed pass found is still what the status says.        *)
C31_Original_ActiveOnlyWhileHealthy ==
    (UpdateStatusPassSetItsStatus /\ unit_status = "ACTIVE") =>
        /\ ready_to_start = "ACTIVE"
        /\ workload_active

(* The pass just run is one of the named storage handler, run to its end.  *)
StoragePassEnded(handler) ==
    /\ pass # <<>>
    /\ pass[1] = <<"enter", handler>>
    /\ pass[Len(pass)] = <<"return", handler>>

(* C32 as stated: when _on_storage_attached has ended on a unit whose      *)
(* workload was active the status is ADDED_STORAGE; when                   *)
(* _on_storage_detaching has ended it is REMOVED_STORAGE or, with no peer  *)
(* relation, REMOVED_STORAGE_NO_REPL: the config_changed pass they run     *)
(* leaves the status alone.                                                *)
C32_Original_StorageStatusStays ==
    /\ (StoragePassEnded("storage_attached")
            /\ Position(pass, <<"enter", "config_changed">>) > 0)
           => unit_status = "ADDED_STORAGE"
    /\ StoragePassEnded("storage_detaching") =>
           /\ unit_status \in {"REMOVED_STORAGE", "REMOVED_STORAGE_NO_REPL"}
           /\ ~peer_relation => unit_status = "REMOVED_STORAGE_NO_REPL"

(* The call just run is remove_cert, and it returned without error.        *)
RemoveCertReturned ==
    /\ tls_pass # <<>>
    /\ tls_pass[1] = <<"call", "remove_cert">>
    /\ tls_pass[Len(tls_pass)][1] = "remove_cert"
    /\ tls_pass[Len(tls_pass)][2] \in {"done", "does not exist"}

(* C33 as stated: after remove_cert(alias) has returned without error the  *)
(* truststore holds no entry alias and the directory no file <alias>.pem,  *)
(* whichever of the two was there before the call.                         *)
C33_Original_RemoveCertLeavesNeither ==
    RemoveCertReturned => ("client" \notin aliases /\ "client.pem" \notin conf_files)

====
